---- MODULE Spec2Model ----
(***************************************************************************)
(* State-machine model of the Glocal-Guinee front end: the Physics         *)
(* integrator and the Particles pool (src/src/Physics.js), the             *)
(* ProductViewer and the App frame loop (src/main.js), and the scroll      *)
(* bindings of the orchestrator variant kept in src/README.md.             *)
(*                                                                         *)
(* Numbers.  Physics positions are fixed-point integers, 10^5 units per    *)
(* world unit; the one inexact operation of Physics.update, the product    *)
(* with damping, rounds to the nearest unit.  Particle life and opacity    *)
(* are IEEE-754 doubles, held exactly as integers in units of 2^-58 and    *)
(* split in two limbs of 29 bits (see DSub).                               *)
(***************************************************************************)
EXTENDS Integers, Sequences, FiniteSets, TLC

VARIABLES
    gravity,      \* Physics.gravity, in tenths (-98 is -9.8)
    objects,      \* Physics.objects: sequence of bodies
    ticks,        \* number of Physics.update() calls so far
    frameCalls,   \* subsystem calls made by the last App.animate frame
    systems,      \* Particles.systems: sequence of particle systems
    mainScene,    \* children of the main THREE.Scene (App.scene.scene)
    trails,       \* number of Particles.createTrail() calls so far
    age,          \* per created system: the update() calls that advanced it
    viewerScene,  \* children of ProductViewer.scene
    meshes,       \* every product mesh the Assets factories returned, by identity
    currentMesh,  \* ProductViewer.currentMesh: a mesh identity, 0 for null
    isDragging,   \* ProductViewer.isDragging
    tweens,       \* the running gsap.from tweens on mesh scales, oldest first
    viewerLog,    \* what the last setProduct call did to the scene and to gsap
    scrollY,      \* window scroll offset
    scrolls,      \* number of scroll updates dispatched so far
    sectionClass, \* per .section element: its class list
    counterTween, \* per .counter element: its count-up tween (progress, direction)
    counterText,  \* per .counter element: the integer shown and whether '+' follows
    enterCalls,   \* per binding: how often ScrollTrigger ran its onEnter
    starts,       \* per binding: how often its reveal began (hidden to revealing)
    postTween,    \* per .counter element: the tween startPostLoadingAnimations registers
    postStarts,   \* per .counter element: how often that second tween began its count-up
    tweenFrom,    \* per .counter element: the start value each tween read, -1 before its first render
    mainScrollY,  \* main.js page: window scroll offset
    mainScrolls,  \* main.js page: number of scroll updates dispatched so far
    statTween,    \* per .stat-number element: its count-up tween (progress, direction)
    statText,     \* per .stat-number element: the integer shown and whether '+' follows
    observed,     \* the .counter elements the IntersectionObserver still observes
    ioTween,      \* per .counter element: the tween its observer callback created
    ioText,       \* per .counter element: the integer shown
    ioStarts,     \* per .counter element: how many count-up tweens were created
    stages,       \* the .growth-stage wrappers of the image sequence, in document order
    canvasProgress, \* scroll offset past the pin's start, clamped to the pinned range
    now,          \* contact form: the clock, in ms
    fields,       \* contact form: "filled" or "empty" input fields
    btnDisabled,  \* contact form: submitBtn.disabled
    btnLabel,     \* contact form: btnText.innerText
    subs,         \* contact form: every submission so far: status, start and end time
    timers,       \* contact form: the pending revert timers: submission and due time
    escaped,      \* contact form: did an exception leave a submit handler
    page,         \* setup: the elements present in the document
    webgl,        \* setup: can the browser create a graphics context
    appStatus,    \* setup: "none" before new App(), then "running", or "threw"
    installed,    \* setup: the bindings and handlers installed so far
    polling,      \* setup: is initAnimations rescheduled for the next frame
    frameLoop,    \* setup: is App.animate scheduled for the next frame
    loadingScreen, \* setup: "absent", "shown", "faded" or "removed"
    fsNow,        \* staggered reveals: the clock, in ms since setup
    reveal,       \* staggered reveals: per target "hidden", "revealing", "visible" or "hiding"
    fired,        \* staggered reveals: the targets whose scroll trigger has fired
    killed,       \* staggered reveals: the targets whose reveal tween was overwritten
    fsTimers,     \* staggered reveals: the timers of setup still pending
    faqActive,    \* FAQ: per page variant and .faq-item, has it the class 'active'
    faqMaxHeight, \* FAQ: per page variant and item, its answer's style.maxHeight, "null" or px
    navScrolled,  \* events: has .navbar the class 'scrolled'
    scrolledTo,   \* events: the element last scrolled into view, "none" at first
    animatePending, \* frame loop: the pending animation-frame callbacks of App.animate
    retryPending, \* frame loop: the pending animation-frame callbacks of initAnimations
    gsapCalls,    \* frame loop: how often setupGSAPAnimations was invoked
    frames,       \* frame loop: the animation frames run so far
    previousMousePosition, \* ProductViewer.previousMousePosition
    lastMove,     \* the pointer: the last 'mousemove' event the viewer container received
    viewerSteps,  \* the mousemove events and render calls so far
    videoVariant, \* video scroll: "none" before initVideoScroll, then "main" or "readme"
    videoNow,     \* video scroll: the clock, in ms since initVideoScroll
    videoLoader,  \* video scroll: loader.style.display
    videoTimer,   \* video scroll: whether the fallback timeout is pending
    videoMetadata, \* video scroll: whether 'loadedmetadata' has fired
    videoTriggers, \* video scroll: the ScrollTriggers created on the container
    videoDuration, \* video scroll: video.duration in ms, 0 while it is NaN
    videoCurrentTime, \* video scroll: video.currentTime in ms
    menuPage,     \* mobile menu: the variant set up and the elements of its page
    menuActive,   \* mobile menu: the overlay has the class 'active'
    hamburgerToggle, \* mobile menu: the hamburger has the class 'toggle'
    menuClicks,   \* mobile menu: the clicks so far
    globePage,    \* globe: the variant set up and the title of every .marker, in document order
    activeMarkers, \* globe: the markers that have the class 'active'
    lastOp        \* the operation that produced the current state

physVars == <<gravity, objects, ticks>>
appVars == <<frameCalls>>
partVars == <<systems, mainScene, trails, age>>
viewVars == <<viewerScene, meshes, currentMesh, isDragging, tweens, viewerLog>>
revealVars == <<scrollY, scrolls, sectionClass, counterTween, counterText, enterCalls, starts,
                postTween, postStarts, tweenFrom>>
statVars == <<mainScrollY, mainScrolls, statTween, statText, observed, ioTween, ioText, ioStarts>>
canvasVars == <<stages, canvasProgress>>
formVars == <<now, fields, btnDisabled, btnLabel, subs, timers, escaped>>
setupVars == <<page, webgl, appStatus, installed, polling, frameLoop, loadingScreen>>
fsVars == <<fsNow, reveal, fired, killed, fsTimers>>
faqVars == <<faqActive, faqMaxHeight>>
eventVars == <<navScrolled, scrolledTo>>
globeVars == <<globePage, activeMarkers>>
menuVars == <<menuPage, menuActive, hamburgerToggle, menuClicks>>
videoVars == <<videoVariant, videoNow, videoLoader, videoTimer, videoMetadata, videoTriggers,
               videoDuration, videoCurrentTime>>
dragVars == <<previousMousePosition, lastMove, viewerSteps>>
loopVars == <<animatePending, retryPending, gsapCalls, frames>>
vars == <<gravity, objects, ticks, frameCalls, systems, mainScene, trails, age,
          viewerScene, meshes, currentMesh, isDragging, tweens, viewerLog,
          scrollY, scrolls, sectionClass, counterTween, counterText, enterCalls, starts,
          postTween, postStarts, tweenFrom,
          mainScrollY, mainScrolls, statTween, statText, observed, ioTween, ioText, ioStarts,
          stages, canvasProgress,
          now, fields, btnDisabled, btnLabel, subs, timers, escaped,
          page, webgl, appStatus, installed, polling, frameLoop, loadingScreen,
          fsNow, reveal, fired, killed, fsTimers,
          faqActive, faqMaxHeight,
          navScrolled, scrolledTo,
          animatePending, retryPending, gsapCalls, frames,
          previousMousePosition, lastMove, viewerSteps,
          videoVariant, videoNow, videoLoader, videoTimer, videoMetadata, videoTriggers, videoDuration, videoCurrentTime,
          menuPage, menuActive, hamburgerToggle, menuClicks,
          globePage, activeMarkers,
          lastOp>>

\* ---------------------------------------------------------------- bounds

MaxBodies == 2
MaxTicks == 2
MaxTrails == 2
MaxMeshes == 2
MaxTweens == 2
MaxScrolls == 4
MaxSubmits == 2
MaxClock == 5
MaxFired == 2
MaxFrames == 3
MaxViewerSteps == 3
MaxVideoClock == 4
MaxMenuClicks == 4
MaxLinks == 2
MaxMarkers == 3
TweenSteps == 2

\* -------------------------------------------------------------- vectors

Unit == 10^5

Vec(x, y, z) == [x |-> x, y |-> y, z |-> z]

VAdd(a, b) == [x |-> a.x + b.x, y |-> a.y + b.y, z |-> a.z + b.z]

VSub(a, b) == [x |-> a.x - b.x, y |-> a.y - b.y, z |-> a.z - b.z]

\* ---------------------------------------------------------------- Physics

InitialGravity == -98
Damping == 98
Dt == 16
YMax == 100
YMin == -50

\* n * damping, damping = Damping/100, rounded to the nearest unit
MulDamping(n) == (n * Damping + 50) \div 100

MultiplyScalarDamping(v) == [x |-> MulDamping(v.x), y |-> MulDamping(v.y), z |-> MulDamping(v.z)]

\* gravity * dt * dt * 100 in position units: (g/10) * (Dt/1000)^2 * 100 * 10^5
GravityTerm(g) == g * Dt * Dt

\* the (mesh.position, initialVelocity) pairs the callers spawn bodies with:
\* at rest at the origin, rising at the upper bound, sinking at the lower bound
Spawns ==
    {<<Vec(0, 0, 0), Vec(0, 0, 0)>>,
     <<Vec(Unit, YMax * Unit, 0), Vec(Unit, Unit, 0)>>,
     <<Vec(0, YMin * Unit, Unit), Vec(0, -Unit, Unit)>>}

GravityValues == {InitialGravity, 98}

NewBody(position, initialVelocity) ==
    [mesh |-> [position |-> position, rotation |-> [x |-> 0, y |-> 0]],
     pos |-> position,
     oldPos |-> VSub(position, initialVelocity),
     velocity |-> initialVelocity]

AddObject(position, initialVelocity) ==
    /\ Len(objects) < MaxBodies
    /\ objects' = Append(objects, NewBody(position, initialVelocity))
    /\ lastOp' = [name |-> "addObject", arg |-> 0]
    /\ UNCHANGED <<gravity, ticks, appVars, partVars, viewVars, revealVars, statVars, canvasVars, formVars, setupVars, fsVars, faqVars, eventVars, loopVars, dragVars, videoVars, menuVars, globeVars>>

\* the position the body's oldPos takes: tempPos, the clone of pos made first
UpdateBodyTempPosAliased(obj, newPos) == newPos

UpdateBodyTempPos(obj, newPos) == obj.pos

\* the gravity body i's step reads: the shared scalar
BodyGravity(g, i) == g

\* one body's step of Physics.update (mesh rotation in units of 0.01 rad)
UpdateBody(obj, g) ==
    LET vel0 == MultiplyScalarDamping(VSub(obj.pos, obj.oldPos))
        vel == [vel0 EXCEPT !.y = @ - GravityTerm(g)]
        newPos == VAdd(obj.pos, vel)
    IN  [obj EXCEPT !.pos = newPos,
                    !.oldPos = UpdateBodyTempPos(obj, newPos),
                    !.mesh = [position |-> newPos,
                              rotation |-> [x |-> obj.mesh.rotation.x + 2,
                                            y |-> obj.mesh.rotation.y + 1]]]

\* Physics.update: every body steps once; the out-of-bounds branch is empty
Update ==
    /\ ticks < MaxTicks
    /\ objects' = [i \in 1..Len(objects) |-> UpdateBody(objects[i], BodyGravity(gravity, i))]
    /\ ticks' = ticks + 1
    /\ lastOp' = [name |-> "update", arg |-> 0]
    /\ UNCHANGED <<gravity, appVars, partVars, viewVars, revealVars, statVars, canvasVars, formVars, setupVars, fsVars, faqVars, eventVars, loopVars, dragVars, videoVars, menuVars, globeVars>>

SetGravityStored(value) == gravity

SetGravityValue(value) == value

SetGravity(value) ==
    /\ gravity' = SetGravityValue(value)
    /\ lastOp' = [name |-> "setGravity", arg |-> value]
    /\ UNCHANGED <<objects, ticks, appVars, partVars, viewVars, revealVars, statVars, canvasVars, formVars, setupVars, fsVars, faqVars, eventVars, loopVars, dragVars, videoVars, menuVars, globeVars>>

OutOfBounds(obj) == obj.pos.y > YMax * Unit \/ obj.pos.y < YMin * Unit

\* -------------------------------------------------------------- doubles

\* An IEEE-754 double d with |d| < 2 and d a multiple of 2^-58 is the integer
\* d * 2^58, written hi * Limb + lo with 0 <= lo < Limb.
Limb == 2^29

D(hi, lo) == [hi |-> hi, lo |-> lo]

DOne == D(536870912, 0)

\* the double nearest 0.02: 5764607523034235 * 2^-58
DDecay == D(10737418, 128849019)

\* the double nearest 0.2: 3602879701896397 * 2^-54
DDecayTenfold == D(107374182, 214748368)

\* the double nearest 0.8: 3602879701896397 * 2^-52
DInitialOpacity == D(429496729, 322122560)

DLess(a, b) == a.hi < b.hi \/ (a.hi = b.hi /\ a.lo < b.lo)

DLeqZero(a) == a.hi < 0 \/ (a.hi = 0 /\ a.lo = 0)

\* the exact difference a - b
DExactSub(a, b) ==
    IF a.lo >= b.lo THEN D(a.hi - b.hi, a.lo - b.lo)
    ELSE D(a.hi - b.hi - 1, a.lo - b.lo + Limb)

\* the spacing of the doubles around v >= 0, in units: 2^(e-52) for 2^e <= v < 2^(e+1)
DUlp(v) ==
    IF v.hi < 2^24 THEN 1
    ELSE IF v.hi < 2^25 THEN 2
    ELSE IF v.hi < 2^26 THEN 4
    ELSE IF v.hi < 2^27 THEN 8
    ELSE IF v.hi < 2^28 THEN 16
    ELSE IF v.hi < 2^29 THEN 32
    ELSE 64

\* v rounded to 53 significant bits, ties to even
DRound(v) ==
    LET q == DUlp(v)
        r == v.lo % q
        down == v.lo - r
        up == r * 2 > q \/ (r * 2 = q /\ (down \div q) % 2 = 1)
        lo2 == IF up THEN down + q ELSE down
    IN  IF lo2 = Limb THEN D(v.hi + 1, 0) ELSE D(v.hi, lo2)

\* the double a - b
DSub(a, b) == DRound(DExactSub(a, b))

\* -------------------------------------------------------------- Particles

Count == 20

\* createTrail's position argument, in thousandths of a world unit
TrailPositions == {Vec(1000, 2000, -1000)}

\* Math.random() draws: one stream of 3 * Count draws per seed, each velocity
\* component (Math.random() - 0.5) * 0.2 in thousandths, within -100..99
Seeds == {1, 2}

RandomVelocity(seed, j, k) == ((seed * 37 + j * 17 + k * 29) % 200) - 100

Velocities(seed) ==
    [j \in 1..Count |-> Vec(RandomVelocity(seed, j, 0), RandomVelocity(seed, j, 1),
                            RandomVelocity(seed, j, 2))]

\* the Float32Array of count * 3 coordinates, every point at `position`
StartPositions(position) ==
    [n \in 1..(Count * 3) |->
        IF n % 3 = 1 THEN position.x ELSE IF n % 3 = 2 THEN position.y ELSE position.z]

SystemIds == {s.points.id : s \in {systems[i] : i \in 1..Len(systems)}}

ScenePoints == {mainScene[i].id : i \in {k \in 1..Len(mainScene) : mainScene[k].kind = "points"}}

\* Particles.createTrail
CreateTrail(position, seed) ==
    /\ trails < MaxTrails
    /\ trails' = trails + 1
    /\ mainScene' = Append(mainScene, [kind |-> "points", id |-> trails + 1])
    /\ systems' = Append(systems,
          [points |-> [id |-> trails + 1, positions |-> StartPositions(position),
                       opacity |-> DInitialOpacity],
           velocities |-> Velocities(seed),
           life |-> DOne])
    /\ age' = Append(age, 0)
    /\ lastOp' = [name |-> "createTrail", arg |-> trails + 1]
    /\ UNCHANGED <<physVars, appVars, viewVars, revealVars, statVars, canvasVars, formVars, setupVars, fsVars, faqVars, eventVars, loopVars, dragVars, videoVars, menuVars, globeVars>>

LifeStepTenfold(life) == DSub(life, DDecayTenfold)

\* system.life -= 0.02
LifeStep(life) == DSub(life, DDecay)

\* the opacity an advanced system is given: system.life
OpacityOf(life) == life

\* the body of update()'s loop up to the test of life: drift, decay, fade
StepSystem(s) ==
    LET moved == [n \in 1..(Count * 3) |->
                    LET v == s.velocities[((n - 1) \div 3) + 1]
                    IN  s.points.positions[n]
                        + (IF n % 3 = 1 THEN v.x ELSE IF n % 3 = 2 THEN v.y ELSE v.z)]
        life == LifeStep(s.life)
    IN  [s EXCEPT !.points.positions = moved,
                  !.life = life,
                  !.points.opacity = OpacityOf(life)]

SpliceNothing(seq, i) == seq

\* this.systems.splice(i, 1)
Splice(seq, i) == SubSeq(seq, 1, i - 1) \o SubSeq(seq, i + 1, Len(seq))

SceneRemove(scene, child) == SelectSeq(scene, LAMBDA c : c # child)

\* update()'s loop, from index i down to the first system
RECURSIVE UpdateLoop(_, _, _)
UpdateLoop(sys, scene, i) ==
    IF i < 1 THEN [systems |-> sys, scene |-> scene]
    ELSE LET s == StepSystem(sys[i])
         IN  IF DLeqZero(s.life)
             THEN UpdateLoop(Splice(sys, i),
                             SceneRemove(scene, [kind |-> "points", id |-> s.points.id]),
                             i - 1)
             ELSE UpdateLoop([sys EXCEPT ![i] = s], scene, i - 1)

\* Particles.update
ParticlesUpdate ==
    LET r == UpdateLoop(systems, mainScene, Len(systems))
    IN  /\ systems # <<>>
        /\ systems' = r.systems
        /\ mainScene' = r.scene
        /\ age' = [id \in 1..Len(age) |-> IF id \in SystemIds THEN age[id] + 1 ELSE age[id]]
        /\ lastOp' = [name |-> "particles.update", arg |-> Len(systems) - Len(r.systems)]
        /\ UNCHANGED <<physVars, appVars, viewVars, trails, revealVars, statVars, canvasVars, formVars, setupVars, fsVars, faqVars, eventVars, loopVars, dragVars, videoVars, menuVars, globeVars>>

\* ---------------------------------------------------------- ProductViewer

\* the keys setProduct's switch knows
ProductKeys == {"sesame", "cashew", "cocoa"}

\* the keys callers pass: the known ones and one the switch has no case for
Keys == ProductKeys \cup {"unknown-key"}

\* Assets.createSesame / createCashew / createCocoa: a new mesh, scale in tenths
AssetsCreate(type) ==
    [type |-> type,
     scale |-> IF type = "sesame" THEN Vec(1, 2, 1) ELSE Vec(5, 5, 5),
     rotation |-> [x |-> 0, y |-> 0]]

\* the display scale setProduct sets on the new mesh, in tenths
DisplayScale(type) ==
    IF type = "sesame" THEN Vec(40, 40, 40)
    ELSE IF type = "cashew" THEN Vec(30, 30, 30)
    ELSE Vec(20, 20, 20)

\* ProductViewer.setupLights: the viewer scene's two lights
ViewerLights == <<[kind |-> "light", id |-> 1], [kind |-> "light", id |-> 2]>>

MeshChild(id) == [kind |-> "mesh", id |-> id]

\* the product meshes among the viewer scene's children, in order
SceneMeshes == SelectSeq(viewerScene, LAMBDA c : c.kind = "mesh")

\* THREE.Object3D.add: the child leaves its parent, then is appended
SceneAdd(scene, child) == Append(SceneRemove(scene, child), child)

RemovePreviousSkipped(scene, cur) == scene

\* if (this.currentMesh) this.scene.remove(this.currentMesh)
RemovePrevious(scene, cur) ==
    IF cur # 0 THEN SceneRemove(scene, MeshChild(cur)) ELSE scene

UnknownKeyMeshCleared(cur) == 0

\* currentMesh after the switch when no case matches: the switch has no default
UnknownKeyMesh(cur) == cur

\* ProductViewer.setProduct
SetProduct(type) ==
    LET known == type \in ProductKeys
        scene1 == RemovePrevious(viewerScene, currentMesh)
        meshes1 == IF known
                   THEN Append(meshes, [AssetsCreate(type) EXCEPT !.scale = DisplayScale(type)])
                   ELSE meshes
        cur1 == IF known THEN Len(meshes) + 1 ELSE UnknownKeyMesh(currentMesh)
    IN  /\ known => Len(meshes) < MaxMeshes
        /\ cur1 # 0 => Len(tweens) < MaxTweens
        /\ currentMesh' = cur1
        /\ IF cur1 # 0
           THEN /\ viewerScene' = SceneAdd(scene1, MeshChild(cur1))
                \* gsap.from: the present scale is the end value, the scale jumps to 0
                /\ tweens' = Append(tweens, [mesh |-> cur1, to |-> meshes1[cur1].scale])
                /\ meshes' = [meshes1 EXCEPT ![cur1].scale = Vec(0, 0, 0)]
           ELSE /\ viewerScene' = scene1
                /\ tweens' = tweens
                /\ meshes' = meshes1
        /\ viewerLog' = (IF currentMesh # 0 THEN <<"scene.remove">> ELSE <<>>)
                        \o (IF cur1 # 0 THEN <<"scene.add", "gsap.from">> ELSE <<>>)
        /\ lastOp' = [name |-> "setProduct", arg |-> type]
        /\ UNCHANGED <<physVars, appVars, partVars, isDragging, revealVars, statVars, canvasVars, formVars, setupVars, fsVars, faqVars, eventVars, loopVars, dragVars, videoVars, menuVars, globeVars>>

\* 0.5 s pass: every running entrance tween renders its end value, oldest first
RECURSIVE TweensEnd(_, _)
TweensEnd(ms, tw) ==
    IF tw = <<>> THEN ms
    ELSE TweensEnd([ms EXCEPT ![Head(tw).mesh].scale = Head(tw).to], Tail(tw))

TweensComplete ==
    /\ tweens # <<>>
    /\ meshes' = TweensEnd(meshes, tweens)
    /\ tweens' = <<>>
    /\ lastOp' = [name |-> "tweensComplete", arg |-> 0]
    /\ UNCHANGED <<physVars, appVars, partVars, viewerScene, currentMesh, isDragging, viewerLog, revealVars, statVars, canvasVars, formVars, setupVars, fsVars, faqVars, eventVars, loopVars, dragVars, videoVars, menuVars, globeVars>>

\* container 'mousedown' listener
MouseDown ==
    /\ isDragging' = TRUE
    /\ lastOp' = [name |-> "mousedown", arg |-> 0]
    /\ UNCHANGED <<physVars, appVars, partVars, viewerScene, meshes, currentMesh, tweens, viewerLog, revealVars, statVars, canvasVars, formVars, setupVars, fsVars, faqVars, eventVars, loopVars, dragVars, videoVars, menuVars, globeVars>>

\* window 'mouseup' listener
MouseUp ==
    /\ isDragging' = FALSE
    /\ lastOp' = [name |-> "mouseup", arg |-> 0]
    /\ UNCHANGED <<physVars, appVars, partVars, viewerScene, meshes, currentMesh, tweens, viewerLog, revealVars, statVars, canvasVars, formVars, setupVars, fsVars, faqVars, eventVars, loopVars, dragVars, videoVars, menuVars, globeVars>>

\* the offsetX / offsetY values of the mousemove events, in pixels
Offsets == {0, 4}

\* rotations are kept in thousandths of a radian
DragFactor == 10
AutoRotation == 5

PreviousOnlyWhileDragging(prev, e, dragging) == IF dragging THEN e ELSE prev

\* this.previousMousePosition = { x: e.offsetX, y: e.offsetY }: the last
\* statement of the listener, outside the if
PreviousAfterMove(prev, e, dragging) == e

\* container 'mousemove' listener
MouseMove(ox, oy) ==
    LET e == [x |-> ox, y |-> oy]
        dx == e.x - previousMousePosition.x
        dy == e.y - previousMousePosition.y
    IN  /\ viewerSteps < MaxViewerSteps
        /\ viewerSteps' = viewerSteps + 1
        /\ meshes' = IF isDragging /\ currentMesh # 0
                      THEN [meshes EXCEPT ![currentMesh].rotation =
                                [x |-> @.x + dy * DragFactor, y |-> @.y + dx * DragFactor]]
                      ELSE meshes
        /\ previousMousePosition' = PreviousAfterMove(previousMousePosition, e, isDragging)
        /\ lastMove' = [seen |-> TRUE, x |-> ox, y |-> oy]
        /\ lastOp' = [name |-> "mousemove", arg |-> 0]
        /\ UNCHANGED <<physVars, appVars, partVars, viewerScene, currentMesh, isDragging, tweens, viewerLog, revealVars, statVars, canvasVars, formVars, setupVars, fsVars, faqVars, eventVars, loopVars, videoVars, menuVars, globeVars>>

\* ProductViewer.render
ViewerRender ==
    /\ viewerSteps < MaxViewerSteps
    /\ viewerSteps' = viewerSteps + 1
    /\ meshes' = IF currentMesh # 0 /\ ~isDragging
                  THEN [meshes EXCEPT ![currentMesh].rotation.y = @ + AutoRotation]
                  ELSE meshes
    /\ lastOp' = [name |-> "render", arg |-> 0]
    /\ UNCHANGED <<physVars, appVars, partVars, viewerScene, currentMesh, isDragging, tweens, viewerLog, revealVars, statVars, canvasVars, formVars, setupVars, fsVars, faqVars, eventVars, loopVars, previousMousePosition, lastMove, videoVars, menuVars, globeVars>>

\* ------------------------------------------------------- scroll bindings

\* the page the bindings are set up on: two .section elements and one .counter,
\* each with its top and height in the document, and the window's height
ViewportHeight == 10

Sections == {"section1", "section2"}

Counters == {"counter1"}

\* the page of src/main.js: one .stat-number element and one .counter element
StatNumbers == {"stat1"}

ObservedCounters == {"counter2"}

ElementTop == [section1 |-> 12, section2 |-> 30, counter1 |-> 26, stat1 |-> 26, counter2 |-> 33]

ElementHeight == [section1 |-> 10, section2 |-> 10, counter1 |-> 2, stat1 |-> 2, counter2 |-> 2]

\* the data-target attribute of each counter element
DataTarget == [counter1 |-> 15, stat1 |-> 15, counter2 |-> 7]

\* the scroll offsets the window is scrolled to
ScrollStops == {0, 10, 20, 25, 45}

\* start: 'top 80%' of the section reveal, start: 'top 90%' of the counter tween
SectionStartPercent == 80
CounterStartPercent == 90

\* start: 'top 85%' of the .stat-number tween of src/main.js
StatStartPercent == 85

StartPercent(e) ==
    IF e \in Sections THEN SectionStartPercent
    ELSE IF e \in StatNumbers THEN StatStartPercent
    ELSE CounterStartPercent

\* the scroll offset at which the element's top reaches the start line
StartOf(e) == ElementTop[e] - (StartPercent(e) * ViewportHeight) \div 100

\* the default end, 'bottom top': the element's bottom reaches the viewport's top
EndOf(e) == ElementTop[e] + ElementHeight[e]

\* where the scroll offset y is for e's trigger: 0 before start, 1 active, 2 past end
Zone(e, y) == IF y <= StartOf(e) THEN 0 ELSE IF y >= EndOf(e) THEN 2 ELSE 1

\* the callbacks ScrollTrigger runs when a trigger goes from zone a to zone b, in
\* order: 1 onEnter, 2 onLeave, 3 onEnterBack, 4 onLeaveBack; a jump over the
\* whole region runs both
Callbacks(a, b) ==
    IF a = 0 /\ b = 1 THEN <<1>>
    ELSE IF a = 0 /\ b = 2 THEN <<1, 2>>
    ELSE IF a = 1 /\ b = 2 THEN <<2>>
    ELSE IF a = 2 /\ b = 1 THEN <<3>>
    ELSE IF a = 2 /\ b = 0 THEN <<3, 4>>
    ELSE IF a = 1 /\ b = 0 THEN <<4>>
    ELSE <<>>

\* the toggle action taken: the one of the callback run; after a jump over the
\* whole region the second callback's, unless that is "none"
ActionFor(toggleActions, a, b) ==
    LET cb == Callbacks(a, b)
    IN  IF cb = <<>> THEN "none"
        ELSE IF Len(cb) = 2 /\ toggleActions[cb[2]] # "none" THEN toggleActions[cb[2]]
        ELSE toggleActions[cb[1]]

CounterToggleActionsReversing == <<"play", "none", "none", "reverse">>

\* toggleActions: 'play none none none' of the counter tweens
CounterToggleActions == <<"play", "none", "none", "none">>

\* a tween's playhead and direction after a toggle action
ApplyAction(tw, action) ==
    IF action = "play" THEN [tw EXCEPT !.dir = "forward"]
    ELSE IF action = "reverse" THEN [tw EXCEPT !.dir = "backward"]
    ELSE IF action = "restart" THEN [progress |-> 0, dir |-> "forward"]
    ELSE IF action = "reset" THEN [progress |-> 0, dir |-> "paused"]
    ELSE IF action = "complete" THEN [progress |-> TweenSteps, dir |-> "forward"]
    ELSE IF action = "pause" THEN [tw EXCEPT !.dir = "paused"]
    ELSE tw

RunningForward(tw) == tw.dir = "forward" /\ tw.progress < TweenSteps

\* does the engine's clock move the tween's playhead, and where to
TweenMoves(tw) ==
    \/ tw.dir = "forward" /\ tw.progress < TweenSteps
    \/ tw.dir = "backward" /\ tw.progress > 0

TweenAdvance(tw) ==
    IF ~TweenMoves(tw) THEN tw
    ELSE IF tw.dir = "forward" THEN [tw EXCEPT !.progress = @ + 1]
    ELSE [tw EXCEPT !.progress = @ - 1]

\* start: 'top 95%' and toggleActions of the counter tween that
\* startPostLoadingAnimations registers on the same .counter elements
PostStartPercent == 95

PostToggleActions == <<"play", "none", "none", "none">>

PostStartOf(e) == ElementTop[e] - (PostStartPercent * ViewportHeight) \div 100

PostZone(e, y) == IF y <= PostStartOf(e) THEN 0 ELSE IF y >= EndOf(e) THEN 2 ELSE 1

Registered(tw) == tw.dir # "unregistered"

\* onEnter: () => section.classList.add('active')
SectionOnEnter(classes) == classes \cup {"active"}

\* ScrollTrigger's update for a scroll to offset y: every trigger whose zone
\* changes runs its callbacks and its toggle action
ScrollTo(y) ==
    LET entered(e) ==
            LET cb == Callbacks(Zone(e, scrollY), Zone(e, y))
            IN  cb # <<>> /\ cb[1] = 1
        tweenAfter(c) ==
            ApplyAction(counterTween[c],
                        ActionFor(CounterToggleActions, Zone(c, scrollY), Zone(c, y)))
        postAfter(c) ==
            IF Registered(postTween[c])
            THEN ApplyAction(postTween[c],
                             ActionFor(PostToggleActions, PostZone(c, scrollY), PostZone(c, y)))
            ELSE postTween[c]
    IN  /\ scrolls < MaxScrolls
        /\ y # scrollY
        /\ scrollY' = y
        /\ scrolls' = scrolls + 1
        /\ sectionClass' = [e \in Sections |->
              IF entered(e) THEN SectionOnEnter(sectionClass[e]) ELSE sectionClass[e]]
        /\ counterTween' = [c \in Counters |-> tweenAfter(c)]
        /\ enterCalls' = [e \in Sections \cup Counters |->
              IF entered(e) THEN enterCalls[e] + 1 ELSE enterCalls[e]]
        /\ starts' = [e \in Sections \cup Counters |->
              IF e \in Sections
              THEN IF entered(e) /\ "active" \notin sectionClass[e]
                   THEN starts[e] + 1 ELSE starts[e]
              ELSE IF ~RunningForward(counterTween[e]) /\ RunningForward(tweenAfter(e))
                   THEN starts[e] + 1 ELSE starts[e]]
        /\ postTween' = [c \in Counters |-> postAfter(c)]
        /\ postStarts' = [c \in Counters |->
              IF ~RunningForward(postTween[c]) /\ RunningForward(postAfter(c))
              THEN postStarts[c] + 1 ELSE postStarts[c]]
        /\ lastOp' = [name |-> "scroll", arg |-> y]
        /\ UNCHANGED <<physVars, appVars, partVars, viewVars, statVars, counterText, tweenFrom, canvasVars, formVars, setupVars, fsVars, faqVars, eventVars, loopVars, dragVars, videoVars, menuVars, globeVars>>

\* startPostLoadingAnimations, run once when the loading screen is gone (or at
\* once when there is none): a second count-up tween is registered on every
\* .counter; its trigger is evaluated against the current scroll offset
StartPostLoadingAnimations ==
    LET postAfter(c) ==
            ApplyAction([progress |-> 0, dir |-> "paused"],
                        ActionFor(PostToggleActions, 0, PostZone(c, scrollY)))
    IN  /\ \A c \in Counters : ~Registered(postTween[c])
        /\ postTween' = [c \in Counters |-> postAfter(c)]
        /\ postStarts' = [c \in Counters |->
              IF RunningForward(postAfter(c)) THEN postStarts[c] + 1 ELSE postStarts[c]]
        /\ lastOp' = [name |-> "startPostLoadingAnimations", arg |-> 0]
        /\ UNCHANGED <<physVars, appVars, partVars, viewVars, statVars, scrollY, scrolls,
                       sectionClass, counterTween, counterText, enterCalls, starts, tweenFrom, canvasVars, formVars, setupVars, fsVars, faqVars, eventVars, loopVars, dragVars, videoVars, menuVars, globeVars>>


\* ease 'power2.out' at playhead p of TweenSteps: 1 - (1 - p/TweenSteps)^2, and
\* the tweened innerText, snapped to an integer
TweenValue(target, p) ==
    (2 * target * (TweenSteps * TweenSteps - (TweenSteps - p) * (TweenSteps - p))
        + TweenSteps * TweenSteps) \div (2 * TweenSteps * TweenSteps)

\* ease 'power3.out' of the second counter tween: 1 - (1 - p/TweenSteps)^3
PostValue(target, p) ==
    (2 * target * (TweenSteps * TweenSteps * TweenSteps
                     - (TweenSteps - p) * (TweenSteps - p) * (TweenSteps - p))
        + TweenSteps * TweenSteps * TweenSteps) \div (2 * TweenSteps * TweenSteps * TweenSteps)

\* one step of the tween engine's clock: every running tween reads its start
\* value at its first render, moves its playhead and writes innerText, and its
\* onUpdate rewrites it as Math.floor(innerText) + '+'; the tweens render in
\* the order they were created, so the text left is the later tween's
TweenTick ==
    LET fromA(c) == IF tweenFrom[c].a = -1 THEN counterText[c].n ELSE tweenFrom[c].a
        textA(c) ==
            IF TweenMoves(counterTween[c])
            THEN fromA(c) + TweenValue(DataTarget[c] - fromA(c), TweenAdvance(counterTween[c]).progress)
            ELSE counterText[c].n
        fromB(c) == IF tweenFrom[c].b = -1 THEN textA(c) ELSE tweenFrom[c].b
        textB(c) ==
            IF TweenMoves(postTween[c])
            THEN fromB(c) + PostValue(DataTarget[c] - fromB(c), TweenAdvance(postTween[c]).progress)
            ELSE textA(c)
    IN  /\ \E c \in Counters : TweenMoves(counterTween[c]) \/ TweenMoves(postTween[c])
        /\ counterTween' = [c \in Counters |-> TweenAdvance(counterTween[c])]
        /\ postTween' = [c \in Counters |-> TweenAdvance(postTween[c])]
        /\ tweenFrom' = [c \in Counters |->
              [a |-> IF TweenMoves(counterTween[c]) THEN fromA(c) ELSE tweenFrom[c].a,
               b |-> IF TweenMoves(postTween[c]) THEN fromB(c) ELSE tweenFrom[c].b]]
        /\ counterText' = [c \in Counters |->
              IF TweenMoves(counterTween[c]) \/ TweenMoves(postTween[c])
              THEN [n |-> textB(c), plus |-> TRUE]
              ELSE counterText[c]]
        /\ lastOp' = [name |-> "tweenTick", arg |-> 0]
        /\ UNCHANGED <<physVars, appVars, partVars, viewVars, statVars, scrollY, scrolls,
                       sectionClass, enterCalls, starts, postStarts, canvasVars, formVars, setupVars, fsVars, faqVars, eventVars, loopVars, dragVars, videoVars, menuVars, globeVars>>

\* ------------------------------------------------- counters of src/main.js

\* toggleActions: 'play none none reverse' of the .stat-number tweens
StatToggleActions == <<"play", "none", "none", "reverse">>

\* the tweened innerHTML at playhead p (ease 'power2.out'; the snap names
\* innerText, so innerHTML is not snapped), as onUpdate rewrites it: Math.ceil
StatValue(target, p) ==
    (target * (TweenSteps * TweenSteps - (TweenSteps - p) * (TweenSteps - p))
        + TweenSteps * TweenSteps - 1) \div (TweenSteps * TweenSteps)

\* IntersectionObserver with threshold 1: the element lies wholly in the viewport
FullyVisible(e, y) == ElementTop[e] >= y /\ ElementTop[e] + ElementHeight[e] <= y + ViewportHeight

\* has the observer callback an intersecting entry for c after a scroll from a to b
Intersects(c, a, b) == c \in observed /\ ~FullyVisible(c, a) /\ FullyVisible(c, b)

\* a scroll of the main.js page to offset y: ScrollTrigger applies the toggle
\* action of each .stat-number tween; the IntersectionObserver callback creates
\* the count-up tween of each .counter that became wholly visible and unobserves it
MainScrollTo(y) ==
    /\ mainScrolls < MaxScrolls
    /\ y # mainScrollY
    /\ mainScrollY' = y
    /\ mainScrolls' = mainScrolls + 1
    /\ statTween' = [c \in StatNumbers |->
          ApplyAction(statTween[c],
                      ActionFor(StatToggleActions, Zone(c, mainScrollY), Zone(c, y)))]
    /\ ioTween' = [c \in ObservedCounters |->
          IF Intersects(c, mainScrollY, y) THEN [progress |-> 0, dir |-> "forward"]
          ELSE ioTween[c]]
    /\ ioStarts' = [c \in ObservedCounters |->
          IF Intersects(c, mainScrollY, y) THEN ioStarts[c] + 1 ELSE ioStarts[c]]
    /\ observed' = {c \in observed : ~Intersects(c, mainScrollY, y)}
    /\ lastOp' = [name |-> "scroll", arg |-> y]
    /\ UNCHANGED <<physVars, appVars, partVars, viewVars, revealVars, statText, ioText, canvasVars, formVars, setupVars, fsVars, faqVars, eventVars, loopVars, dragVars, videoVars, menuVars, globeVars>>

\* one step of the tween engine's clock on the main.js page: every running
\* tween moves its playhead and writes the element's text
MainTweenTick ==
    /\ \/ \E c \in StatNumbers : TweenMoves(statTween[c])
       \/ \E c \in ObservedCounters : TweenMoves(ioTween[c])
    /\ statTween' = [c \in StatNumbers |-> TweenAdvance(statTween[c])]
    /\ statText' = [c \in StatNumbers |->
          IF TweenMoves(statTween[c])
          THEN [n |-> StatValue(DataTarget[c], TweenAdvance(statTween[c]).progress), plus |-> TRUE]
          ELSE statText[c]]
    /\ ioTween' = [c \in ObservedCounters |-> TweenAdvance(ioTween[c])]
    /\ ioText' = [c \in ObservedCounters |->
          IF TweenMoves(ioTween[c])
          THEN TweenValue(DataTarget[c], TweenAdvance(ioTween[c]).progress)
          ELSE ioText[c]]
    /\ lastOp' = [name |-> "tweenTick", arg |-> 0]
    /\ UNCHANGED <<physVars, appVars, partVars, viewVars, revealVars, mainScrollY, mainScrolls,
                   observed, ioStarts, canvasVars, formVars, setupVars, fsVars, faqVars, eventVars, loopVars, dragVars, videoVars, menuVars, globeVars>>

\* ------------------------------------------- pinned image sequence (main.js)

\* stages.length, and the pinned scroll distance of end: '+=3000'
StageCount == 4
CanvasEnd == 3000

\* the scroll offsets, relative to the pin's start, the page is scrolled to
CanvasOffsets == {125 * k : k \in (-2)..26}

\* self.progress: the offset over the pinned distance, clamped to [0, 1], held
\* as the clamped offset (progress times CanvasEnd)
ProgressAt(offset) == IF offset < 0 THEN 0 ELSE IF offset > CanvasEnd THEN CanvasEnd ELSE offset

\* initCanvasAnimation: one wrapper per stage, the first one opaque
InitCanvasAnimation ==
    /\ stages = <<>>
    /\ stages' = [i \in 1..StageCount |->
          [opacity |-> IF i = 1 THEN 1 ELSE 0, scale |-> 0, imgFailed |-> FALSE]]
    /\ canvasProgress' = 0
    /\ lastOp' = [name |-> "initCanvasAnimation", arg |-> 0]
    /\ UNCHANGED <<physVars, appVars, partVars, viewVars, revealVars, statVars, formVars, setupVars, fsVars, faqVars, eventVars, loopVars, dragVars, videoVars, menuVars, globeVars>>

\* img.onerror of stage i: the image is hidden and the fallback block shown
ImgError(i) ==
    /\ i \in 1..Len(stages)
    /\ ~stages[i].imgFailed
    /\ stages' = [stages EXCEPT ![i].imgFailed = TRUE]
    /\ lastOp' = [name |-> "img.onerror", arg |-> i]
    /\ UNCHANGED <<physVars, appVars, partVars, viewVars, revealVars, statVars, canvasProgress, formVars, setupVars, fsVars, faqVars, eventVars, loopVars, dragVars, videoVars, menuVars, globeVars>>

StageIndexUnclamped(p) == (p * StageCount) \div CanvasEnd

\* Math.min(Math.floor(progress * stages.length), stages.length - 1), 0-based
StageIndex(p) ==
    IF (p * StageCount) \div CanvasEnd < StageCount - 1
    THEN (p * StageCount) \div CanvasEnd ELSE StageCount - 1

\* onUpdate of the pin's ScrollTrigger: the stage of the index is shown at
\* scale 1, every other one hidden at scale 1.1 (scale in tenths)
CanvasUpdate(offset) ==
    /\ stages # <<>>
    /\ ProgressAt(offset) # canvasProgress
    /\ canvasProgress' = ProgressAt(offset)
    /\ stages' = [i \in 1..Len(stages) |->
          IF i - 1 = StageIndex(ProgressAt(offset))
          THEN [stages[i] EXCEPT !.opacity = 1, !.scale = 10]
          ELSE [stages[i] EXCEPT !.opacity = 0, !.scale = 11]]
    /\ lastOp' = [name |-> "canvasUpdate", arg |-> offset, from |-> canvasProgress]
    /\ UNCHANGED <<physVars, appVars, partVars, viewVars, revealVars, statVars, formVars, setupVars, fsVars, faqVars, eventVars, loopVars, dragVars, videoVars, menuVars, globeVars>>

\* ------------------------------------------------- contact form (README.md)

\* the delay of the revert timer, and the step of the model's clock
RevertDelay == 3000
TickMs == 1500

\* how a request ends: the endpoint answers ok, answers non-ok, or fetch rejects
Outcomes == {"ok", "notok", "rejected"}

\* the user types into the form
FillFields ==
    /\ fields = "empty"
    /\ fields' = "filled"
    /\ lastOp' = [name |-> "fill", arg |-> 0]
    /\ UNCHANGED <<physVars, appVars, partVars, viewVars, revealVars, statVars, canvasVars,
                   now, btnDisabled, btnLabel, subs, timers, escaped, setupVars, fsVars, faqVars, eventVars, loopVars, dragVars, videoVars, menuVars, globeVars>>

\* the submit handler up to its await: the control is disabled, the form data
\* read and the request sent
Submit ==
    /\ Len(subs) < MaxSubmits
    /\ btnDisabled' = TRUE
    /\ subs' = Append(subs, [status |-> "inflight", startedAt |-> now, endedAt |-> -1])
    /\ lastOp' = [name |-> "submit", arg |-> Len(subs) + 1]
    /\ UNCHANGED <<physVars, appVars, partVars, viewVars, revealVars, statVars, canvasVars,
                   now, fields, btnLabel, timers, escaped, setupVars, fsVars, faqVars, eventVars, loopVars, dragVars, videoVars, menuVars, globeVars>>

ResponseLabelKept(outcome, label) == label

\* the label after the try block and its catch clause
ResponseLabel(outcome, label) ==
    IF outcome = "ok" THEN "Message Sent!"
    ELSE IF outcome = "rejected" THEN "Error. Try Again."
    ELSE label

\* form.reset() runs in the response.ok branch only
ResponseFields(outcome, f) == IF outcome = "ok" THEN "empty" ELSE f

\* the try has a catch clause for the rejected fetch, so nothing is rethrown
Rethrown(outcome) == FALSE

\* the handler from its await on: the request of submission i ends, the label
\* is set, and the finally block arms the revert timer
Respond(i, outcome) ==
    /\ i \in 1..Len(subs)
    /\ subs[i].status = "inflight"
    /\ subs' = [subs EXCEPT ![i].status = outcome, ![i].endedAt = now]
    /\ fields' = ResponseFields(outcome, fields)
    /\ btnLabel' = ResponseLabel(outcome, btnLabel)
    /\ escaped' = (escaped \/ Rethrown(outcome))
    /\ timers' = timers \cup {[id |-> i, due |-> now + RevertDelay]}
    /\ lastOp' = [name |-> "respond", arg |-> i, cleared |-> (fields' # fields)]
    /\ UNCHANGED <<physVars, appVars, partVars, viewVars, revealVars, statVars, canvasVars,
                   now, btnDisabled, setupVars, fsVars, faqVars, eventVars, loopVars, dragVars, videoVars, menuVars, globeVars>>

\* the revert timer of submission i fires when it is due
Revert(i) ==
    /\ \E t \in timers : t.id = i /\ t.due = now
    /\ timers' = {t \in timers : t.id # i}
    /\ btnDisabled' = FALSE
    /\ btnLabel' = "Send Message"
    /\ lastOp' = [name |-> "revert", arg |-> i]
    /\ UNCHANGED <<physVars, appVars, partVars, viewVars, revealVars, statVars, canvasVars,
                   now, fields, subs, escaped, setupVars, fsVars, faqVars, eventVars, loopVars, dragVars, videoVars, menuVars, globeVars>>

\* time passes; a timer that is due fires before the clock moves on
FormTick ==
    /\ now < MaxClock * TickMs
    /\ \A t \in timers : t.due > now
    /\ now' = now + TickMs
    /\ lastOp' = [name |-> "tick", arg |-> 0]
    /\ UNCHANGED <<physVars, appVars, partVars, viewVars, revealVars, statVars, canvasVars,
                   fields, btnDisabled, btnLabel, subs, timers, escaped, setupVars, fsVars, faqVars, eventVars, loopVars, dragVars, videoVars, menuVars, globeVars>>

\* ------------------------------------------------------ App setup (main.js)

\* the elements a page may or may not have
Elements ==
    {"hero-title", "loading-screen", "hamburger", "mobile-menu-overlay", "main-cta",
     "stat-number", "faq-item", "contact-form-card", "product-card", "info-box"}

\* every binding of the setup, with the elements it needs
Requires ==
    [contactFormAnim |-> {"contact-form-card"},
     navbarScroll |-> {},
     hamburgerClick |-> {"hamburger", "mobile-menu-overlay"},
     mainCtaClick |-> {"main-cta"},
     productCardClick |-> {"product-card"},
     faqClick |-> {"faq-item"},
     infoBoxClick |-> {"info-box"},
     heroParallax |-> {},
     heroTitleReveal |-> {"hero-title"},
     statCounter |-> {"stat-number"},
     contactFormReveal |-> {"contact-form-card"}]

Bindings == DOMAIN Requires

Present(names, els) == {b \in names : Requires[b] \subseteq els}

\* new Scene(): new THREE.WebGLRenderer throws when no context can be created
SceneThrows(gl) == ~gl

\* is the new Scene() of the App constructor inside a try block
SceneGuarded == FALSE

SetupSiteAnimations(els) == Present({"contactFormAnim"}, els)

SetupInteractions(els) ==
    Present({"navbarScroll", "hamburgerClick", "mainCtaClick", "productCardClick"}, els)

SetupFAQ(els) == Present({"faqClick"}, els)

SetupScrollEffects(els) == Present({"heroParallax"}, els)

SetupGSAPAnimations(els) ==
    Present({"heroTitleReveal", "statCounter", "contactFormReveal", "infoBoxClick"}, els)

InitAnimationsReadyAlways(els) == TRUE

\* initAnimations runs setupGSAPAnimations only when #hero-title is there, and
\* else reschedules itself for the next frame
InitAnimationsReady(els) == "hero-title" \in els

\* App.init, in order
AppInit(els) ==
    SetupSiteAnimations(els) \cup SetupInteractions(els) \cup SetupFAQ(els)
        \cup SetupScrollEffects(els)
        \cup (IF InitAnimationsReady(els) THEN SetupGSAPAnimations(els) ELSE {})

\* DOMContentLoaded: new App() on a document with the elements els; the
\* constructor builds the Scene and then runs init, which ends in animate()
DOMContentLoaded(els, gl) ==
    LET threw == SceneThrows(gl) /\ ~SceneGuarded
    IN  /\ appStatus = "none"
        /\ page' = els
        /\ webgl' = gl
        /\ appStatus' = IF threw THEN "threw" ELSE "running"
        /\ installed' = IF threw THEN {} ELSE AppInit(els)
        /\ polling' = (~threw /\ ~InitAnimationsReady(els))
        /\ frameLoop' = ~threw
        /\ loadingScreen' = IF "loading-screen" \in els THEN "shown" ELSE "absent"
        /\ gsapCalls' = IF ~threw /\ InitAnimationsReady(els) THEN 1 ELSE 0
        /\ retryPending' = IF ~threw /\ ~InitAnimationsReady(els) THEN 1 ELSE 0
        /\ animatePending' = IF threw THEN 0 ELSE 1
        /\ lastOp' = [name |-> "DOMContentLoaded", arg |-> 0]
        /\ UNCHANGED <<physVars, appVars, partVars, viewVars, revealVars, statVars, canvasVars,
                       formVars, fsVars, faqVars, eventVars, frames, dragVars, videoVars, menuVars, globeVars>>

\* the two timers of init: the loading screen fades after 1000 ms and is
\* removed 500 ms later
LoadingScreenTimer ==
    /\ appStatus = "running"
    /\ loadingScreen \in {"shown", "faded"}
    /\ loadingScreen' = IF loadingScreen = "shown" THEN "faded" ELSE "removed"
    /\ page' = IF loadingScreen = "faded" THEN page \ {"loading-screen"} ELSE page
    /\ lastOp' = [name |-> "loadingScreenTimer", arg |-> 0]
    /\ UNCHANGED <<physVars, appVars, partVars, viewVars, revealVars, statVars, canvasVars,
                   formVars, webgl, appStatus, installed, polling, frameLoop, fsVars, faqVars, eventVars, loopVars, dragVars, videoVars, menuVars, globeVars>>

AnimateReschedulesAfterRender(renderThrows) == IF renderThrows THEN 0 ELSE 1

\* the callbacks one run of App.animate leaves pending: requestAnimationFrame
\* is its first statement, before the render calls that may throw
AnimateReschedules(renderThrows) == 1

\* an animation frame runs every pending callback: a rescheduled
\* initAnimations looks for #hero-title again, calls setupGSAPAnimations in a
\* try block if it is there and else reschedules itself; App.animate
\* reschedules itself and renders
AnimationFrame(renderThrows, setupThrows) ==
    LET ready == InitAnimationsReady(page)
    IN  /\ retryPending + animatePending > 0
        /\ frames < MaxFrames
        /\ frames' = frames + 1
        /\ gsapCalls' = IF ready THEN gsapCalls + retryPending ELSE gsapCalls
        /\ installed' = IF retryPending > 0 /\ ready /\ ~setupThrows
                         THEN installed \cup SetupGSAPAnimations(page) ELSE installed
        /\ retryPending' = IF ready THEN 0 ELSE retryPending
        /\ polling' = (retryPending > 0 /\ ~ready)
        /\ animatePending' = animatePending * AnimateReschedules(renderThrows)
        /\ lastOp' = [name |-> "animationFrame", arg |-> 0,
                       renderThrew |-> (renderThrows /\ animatePending > 0),
                       setupThrew |-> (setupThrows /\ retryPending > 0 /\ ready)]
        /\ UNCHANGED <<physVars, appVars, partVars, viewVars, revealVars, statVars, canvasVars,
                       formVars, page, webgl, appStatus, frameLoop, loadingScreen, fsVars,
                       faqVars, eventVars, dragVars, videoVars, menuVars, globeVars>>

\* #hero-title is added to the document after setup
InsertHeroTitle ==
    /\ appStatus = "running"
    /\ "hero-title" \notin page
    /\ page' = page \cup {"hero-title"}
    /\ lastOp' = [name |-> "insertHeroTitle", arg |-> 0]
    /\ UNCHANGED <<physVars, appVars, partVars, viewVars, revealVars, statVars, canvasVars,
                   formVars, webgl, appStatus, installed, polling, frameLoop, loadingScreen,
                   fsVars, faqVars, eventVars, loopVars, dragVars, videoVars, menuVars, globeVars>>

\* ------------------------------------- staggered reveals and fail-safe (README.md)

\* the targets of the staggered reveals (configs) and of the section-header
\* timelines: gsap.from renders them at opacity 0 at once
RevealTargets ==
    {"milestone", "step", "product-card", "info-box", "info-item", "contact-form-card",
     "section-header"}

\* the selector of the fail-safe tween: '.step, .counter'
FailsafeTargets == {"step", "counter"}

\* the delays of the fail-safe timer and of gsap.set on the contact form card,
\* the duration of the fail-safe tween, and the step of the model's clock
FailsafeDelay == 5000
CardSetDelay == 2000
FailsafeDuration == 1000
FsTickMs == 1000

FsDue(timer) == IF timer = "cardSet" THEN CardSetDelay ELSE FailsafeDelay

\* onEnter of target t's trigger: toggle action play
RevealEnter(t) ==
    /\ t \in RevealTargets
    /\ t \in fired \/ Cardinality(fired) < MaxFired
    /\ fired' = fired \cup {t}
    /\ reveal' = IF t \notin killed /\ reveal[t] \in {"hidden", "hiding"}
                  THEN [reveal EXCEPT ![t] = "revealing"] ELSE reveal
    /\ lastOp' = [name |-> "onEnter", arg |-> t]
    /\ UNCHANGED <<physVars, appVars, partVars, viewVars, revealVars, statVars, canvasVars,
                   formVars, setupVars, fsNow, killed, fsTimers, faqVars, eventVars, loopVars, dragVars, videoVars, menuVars, globeVars>>

\* onLeaveBack of target t's trigger: toggle action reverse
RevealLeaveBack(t) ==
    /\ t \in fired
    /\ reveal' = IF t \notin killed /\ reveal[t] \in {"visible", "revealing"}
                  THEN [reveal EXCEPT ![t] = "hiding"] ELSE reveal
    /\ lastOp' = [name |-> "onLeaveBack", arg |-> t]
    /\ UNCHANGED <<physVars, appVars, partVars, viewVars, revealVars, statVars, canvasVars,
                   formVars, setupVars, fsNow, fired, killed, fsTimers, faqVars, eventVars, loopVars, dragVars, videoVars, menuVars, globeVars>>

\* gsap.set('.contact-form-card', {opacity: 1, x: 0, clearProps: 'all', delay: 2})
ContactCardSet ==
    /\ "cardSet" \in fsTimers
    /\ fsNow = FsDue("cardSet")
    /\ fsTimers' = fsTimers \ {"cardSet"}
    /\ reveal' = [reveal EXCEPT !["contact-form-card"] = "visible"]
    /\ lastOp' = [name |-> "cardSet", arg |-> 0]
    /\ UNCHANGED <<physVars, appVars, partVars, viewVars, revealVars, statVars, canvasVars,
                   formVars, setupVars, fsNow, fired, killed, faqVars, eventVars, loopVars, dragVars, videoVars, menuVars, globeVars>>

\* the fail-safe timer: gsap.to('.step, .counter', {opacity: 1, y: 0,
\* overwrite: 'auto'}) takes the targets over from their reveal tweens
FailsafeFire ==
    /\ "failsafe" \in fsTimers
    /\ fsNow = FsDue("failsafe")
    /\ fsTimers' = fsTimers \ {"failsafe"}
    /\ killed' = killed \cup (FailsafeTargets \cap RevealTargets)
    /\ reveal' = [t \in DOMAIN reveal |->
          IF t \in FailsafeTargets /\ reveal[t] # "visible" THEN "revealing" ELSE reveal[t]]
    /\ lastOp' = [name |-> "failsafe", arg |-> 0]
    /\ UNCHANGED <<physVars, appVars, partVars, viewVars, revealVars, statVars, canvasVars,
                   formVars, setupVars, fsNow, fired, faqVars, eventVars, loopVars, dragVars, videoVars, menuVars, globeVars>>

\* time passes and the running tweens end; a timer that is due fires first
FsTick ==
    /\ fsNow < FailsafeDelay + FailsafeDuration + FsTickMs
    /\ \A timer \in fsTimers : FsDue(timer) > fsNow
    /\ fsNow' = fsNow + FsTickMs
    /\ reveal' = [t \in DOMAIN reveal |->
          IF reveal[t] = "revealing" THEN "visible"
          ELSE IF reveal[t] = "hiding" THEN "hidden" ELSE reveal[t]]
    /\ lastOp' = [name |-> "tick", arg |-> 0]
    /\ UNCHANGED <<physVars, appVars, partVars, viewVars, revealVars, statVars, canvasVars,
                   formVars, setupVars, fired, killed, fsTimers, faqVars, eventVars, loopVars, dragVars, videoVars, menuVars, globeVars>>

\* ------------------------------------------------------------ FAQ accordion

\* the two variants of setupFAQ, of src/main.js and of src/README.md, each on
\* a page with five .faq-item elements that all have their .faq-answer
FaqPages == {"main", "readme"}

FaqItems == 1..5

\* answer.scrollHeight of each item's answer
ScrollHeight == <<40, 0, 25, 60, 10>>

FaqClosedKept(active) == active

\* the 'close others' loop: classList.remove('active') on every item
FaqClosed(active) == [i \in FaqItems |-> FALSE]

\* the same loop on the answers: style.maxHeight = null
FaqHeightsCleared(heights) == [i \in FaqItems |-> "null"]

\* the click handler of item i on page pg
FaqClick(pg, i) ==
    LET isOpen == faqActive[pg][i]
        closed == FaqClosed(faqActive[pg])
        cleared == FaqHeightsCleared(faqMaxHeight[pg])
    IN  /\ faqActive' = [faqActive EXCEPT ![pg] =
              IF ~isOpen THEN [closed EXCEPT ![i] = TRUE] ELSE closed]
        /\ faqMaxHeight' = [faqMaxHeight EXCEPT ![pg] =
              IF ~isOpen THEN [cleared EXCEPT ![i] = ToString(ScrollHeight[i]) \o "px"] ELSE cleared]
        /\ lastOp' = [name |-> "faqClick", arg |-> <<pg, i>>]
        /\ UNCHANGED <<physVars, appVars, partVars, viewVars, revealVars, statVars, canvasVars,
                       formVars, setupVars, fsVars, eventVars, loopVars, dragVars, videoVars, menuVars, globeVars>>

\* ------------------------------------------------------------- App frame

\* App.productViewer: set to null in the constructor and assigned nowhere
AppProductViewer == "null"

\* App.animate: reschedules itself, renders the viewer if there is one, renders the scene
Animate ==
    /\ frameCalls' = (IF AppProductViewer # "null" THEN <<"productViewer.render">> ELSE <<>>)
                     \o <<"scene.render">>
    /\ lastOp' = [name |-> "animate", arg |-> 0]
    /\ UNCHANGED <<physVars, partVars, viewVars, revealVars, statVars, canvasVars, formVars, setupVars, fsVars, faqVars, eventVars, loopVars, dragVars, videoVars, menuVars, globeVars>>

\* ------------------------------------------------------------ event handlers

\* the elements the handlers look up when an event arrives
LookedUp == {"navbar", "products", "product-360-viewer", "faq-answer"}

\* did the last handler end in an exception
Raised == "raised" \in DOMAIN lastOp /\ lastOp.raised

\* window.scrollY of the scroll events
ScrollOffsets == {0, 100}

\* the offset above which the navbar gets the class 'scrolled'
NavbarThreshold == 50

\* the navbar scroll listener of src/main.js: nav is dereferenced unchecked
NavbarScroll(y) ==
    /\ "navbarScroll" \in installed
    /\ navScrolled' = IF "navbar" \in page THEN y > NavbarThreshold ELSE navScrolled
    /\ lastOp' = [name |-> "navbarScroll", arg |-> y, raised |-> "navbar" \notin page]
    /\ UNCHANGED <<physVars, appVars, partVars, viewVars, revealVars, statVars, canvasVars,
                   formVars, setupVars, fsVars, faqVars, scrolledTo, loopVars, dragVars, videoVars, menuVars, globeVars>>

\* the click listener of #main-cta: #products is dereferenced unchecked
MainCtaClick ==
    /\ "mainCtaClick" \in installed
    /\ scrolledTo' = IF "products" \in page THEN "products" ELSE scrolledTo
    /\ lastOp' = [name |-> "mainCtaClick", arg |-> 0, raised |-> "products" \notin page]
    /\ UNCHANGED <<physVars, appVars, partVars, viewVars, revealVars, statVars, canvasVars,
                   formVars, setupVars, fsVars, faqVars, navScrolled, loopVars, dragVars, videoVars, menuVars, globeVars>>

\* the two variants of the product card's click listener
CardVariants == {"main", "readme"}

\* is setProduct called: src/main.js calls it unchecked, src/README.md only on a viewer
CardClickInvokes(variant) == variant = "main" \/ AppProductViewer # "null"

\* the click listener of a .product-card with data-product = k: setProduct(k)
\* on this.productViewer, then #product-360-viewer is scrolled into view
ProductCardClick(variant, k) ==
    LET invoked == CardClickInvokes(variant) /\ AppProductViewer # "null"
        raised ==
            \/ CardClickInvokes(variant) /\ AppProductViewer = "null"
            \/ invoked /\ variant = "main" /\ "product-360-viewer" \notin page
    IN  /\ "productCardClick" \in installed
        /\ scrolledTo' = IF invoked /\ "product-360-viewer" \in page
                          THEN "product-360-viewer" ELSE scrolledTo
        /\ lastOp' = [name |-> "productCardClick", arg |-> k, variant |-> variant,
                       invoked |-> invoked, raised |-> raised]
        /\ UNCHANGED <<physVars, appVars, partVars, viewVars, revealVars, statVars, canvasVars,
                       formVars, setupVars, fsVars, faqVars, navScrolled, loopVars, dragVars, videoVars, menuVars, globeVars>>

\* ----------------------------------------------------- pinned video scroll

VideoVariants == {"main", "readme"}

\* the fallback timeout of main.js, in ms
FallbackDelay == 2000

VideoTickMs == 1000

\* the durations 'loadedmetadata' may report, in ms
Durations == {6000, 8000}

\* self.progress, in percent
Progresses == {0, 25, 50, 100}

\* initVideoScroll on a page with #cashew-canvas-container: the loader and the
\* video are appended, the listener is added and, in main.js, the fallback
\* timeout is set
InitVideoScroll(variant) ==
    /\ videoVariant = "none"
    /\ videoVariant' = variant
    /\ videoTimer' = (variant = "main")
    /\ lastOp' = [name |-> "initVideoScroll", arg |-> 0]
    /\ UNCHANGED <<physVars, appVars, partVars, viewVars, revealVars, statVars, canvasVars, formVars, setupVars, fsVars, faqVars, eventVars, loopVars, dragVars, videoNow, videoLoader, videoMetadata, videoTriggers, videoDuration, videoCurrentTime, menuVars, globeVars>>

\* startScroll: ScrollTrigger.create, whatever was created before
StartScroll(triggers) == triggers + 1

\* the video's 'loadedmetadata' event: the duration is known from now on
LoadedMetadata(d) ==
    /\ videoVariant # "none"
    /\ ~videoMetadata
    /\ videoMetadata' = TRUE
    /\ videoDuration' = d
    /\ videoLoader' = "none"
    /\ videoTriggers' = StartScroll(videoTriggers)
    /\ lastOp' = [name |-> "loadedmetadata", arg |-> d]
    /\ UNCHANGED <<physVars, appVars, partVars, viewVars, revealVars, statVars, canvasVars, formVars, setupVars, fsVars, faqVars, eventVars, loopVars, dragVars, videoVariant, videoNow, videoTimer, videoCurrentTime, menuVars, globeVars>>

\* the fallback timeout of main.js fires
FallbackTimer ==
    /\ videoTimer
    /\ videoNow = FallbackDelay
    /\ videoTimer' = FALSE
    /\ videoLoader' = IF videoLoader # "none" THEN "none" ELSE videoLoader
    /\ videoTriggers' = IF videoLoader # "none" THEN StartScroll(videoTriggers) ELSE videoTriggers
    /\ lastOp' = [name |-> "fallbackTimer", arg |-> 0]
    /\ UNCHANGED <<physVars, appVars, partVars, viewVars, revealVars, statVars, canvasVars, formVars, setupVars, fsVars, faqVars, eventVars, loopVars, dragVars, videoVariant, videoNow, videoMetadata, videoDuration, videoCurrentTime, menuVars, globeVars>>

\* time passes; a due timeout fires before the clock moves on
VideoTick ==
    /\ videoVariant # "none"
    /\ videoNow < MaxVideoClock * VideoTickMs
    /\ ~(videoTimer /\ videoNow = FallbackDelay)
    /\ videoNow' = videoNow + VideoTickMs
    /\ lastOp' = [name |-> "videoTick", arg |-> 0]
    /\ UNCHANGED <<physVars, appVars, partVars, viewVars, revealVars, statVars, canvasVars, formVars, setupVars, fsVars, faqVars, eventVars, loopVars, dragVars, videoVariant, videoLoader, videoTimer, videoMetadata, videoTriggers, videoDuration, videoCurrentTime, menuVars, globeVars>>

\* onUpdate of a created ScrollTrigger: if (video.duration) video.currentTime
\* = video.duration * self.progress
VideoUpdate(progress) ==
    /\ videoTriggers > 0
    /\ videoCurrentTime' = IF videoDuration # 0 THEN (videoDuration * progress) \div 100
                            ELSE videoCurrentTime
    /\ lastOp' = [name |-> "videoUpdate", arg |-> progress, from |-> videoCurrentTime]
    /\ UNCHANGED <<physVars, appVars, partVars, viewVars, revealVars, statVars, canvasVars, formVars, setupVars, fsVars, faqVars, eventVars, loopVars, dragVars, videoVariant, videoNow, videoLoader, videoTimer, videoMetadata, videoTriggers, videoDuration, menuVars, globeVars>>

\* ------------------------------------------------------------ mobile menu

\* the numbers of links in the overlay
LinkCounts == 0..MaxLinks

\* setupInteractions on a page: the click listeners are added only if both the
\* hamburger and the overlay are found
MenuSetup(variant, hamburger, overlay, links) ==
    /\ ~menuPage.set
    /\ menuPage' = [set |-> TRUE, variant |-> variant, hamburger |-> hamburger,
                    overlay |-> overlay, links |-> IF overlay THEN links ELSE 0]
    /\ lastOp' = [name |-> "menuSetup", arg |-> 0]
    /\ UNCHANGED <<physVars, appVars, partVars, viewVars, revealVars, statVars, canvasVars, formVars, setupVars, fsVars, faqVars, eventVars, loopVars, dragVars, videoVars, menuActive, hamburgerToggle, menuClicks, globeVars>>

MenuListening == menuPage.set /\ menuPage.hamburger /\ menuPage.overlay

ClassListAdd(present) == TRUE

\* classList.toggle
ClassListToggle(present) == ~present

\* classList.remove
ClassListRemove(present) == FALSE

\* a click on the hamburger
HamburgerClick ==
    /\ menuPage.set /\ menuPage.hamburger
    /\ menuClicks < MaxMenuClicks
    /\ menuClicks' = menuClicks + 1
    /\ menuActive' = IF MenuListening THEN ClassListToggle(menuActive) ELSE menuActive
    /\ hamburgerToggle' = IF MenuListening THEN ClassListToggle(hamburgerToggle) ELSE hamburgerToggle
    /\ lastOp' = [name |-> "hamburgerClick", arg |-> 0]
    /\ UNCHANGED <<physVars, appVars, partVars, viewVars, revealVars, statVars, canvasVars, formVars, setupVars, fsVars, faqVars, eventVars, loopVars, dragVars, videoVars, menuPage, globeVars>>

\* a click on the k-th link of the overlay
MobileLinkClick(k) ==
    /\ menuPage.set /\ k <= menuPage.links
    /\ menuClicks < MaxMenuClicks
    /\ menuClicks' = menuClicks + 1
    /\ menuActive' = IF MenuListening THEN ClassListRemove(menuActive) ELSE menuActive
    /\ hamburgerToggle' = IF MenuListening THEN ClassListRemove(hamburgerToggle) ELSE hamburgerToggle
    /\ lastOp' = [name |-> "mobileLinkClick", arg |-> k]
    /\ UNCHANGED <<physVars, appVars, partVars, viewVars, revealVars, statVars, canvasVars, formVars, setupVars, fsVars, faqVars, eventVars, loopVars, dragVars, videoVars, menuPage, globeVars>>

\* ---------------------------------------------------------- globe markers

\* a text is the sequence of its words; a word of other characters than letters
\* is written "#"
NoTitle == [has |-> FALSE, words |-> <<>>]

Title(words) == [has |-> TRUE, words |-> words]

\* marker.getAttribute('title'): null for a marker without the attribute
Titles == {NoTitle, Title(<<"Guinea", "HQ">>), Title(<<"Mali">>), Title(<<"Equatorial", "Guinea">>)}

\* box.querySelector('h3').innerText
BoxTexts == {<<"#", "Guinea">>, <<"Mali", "#">>, <<"Equatorial", "Guinea">>, <<"Togo">>}

\* innerText.replace(/[^a-zA-Z\s]/g, '').trim()
CountryName(text) == SelectSeq(text, LAMBDA w : w # "#")

\* String.prototype.includes, on word boundaries
Includes(t, sub) ==
    \/ sub = <<>>
    \/ \E i \in 1..(Len(t) - Len(sub) + 1) : SubSeq(t, i, i + Len(sub) - 1) = sub

\* the markers.forEach of the click listener, from marker i on: the target so
\* far, and whether title.includes was called on a null title
RECURSIVE FindTarget(_, _, _, _, _)
FindTarget(variant, titles, country, i, target) ==
    IF i > Len(titles) THEN [target |-> target, raised |-> FALSE]
    ELSE LET title == titles[i]
             byName == title.has /\ Includes(title.words, country)
             guinea == Includes(country, <<"Guinea">>)
         IN  IF variant = "main"
             THEN IF guinea /\ ~title.has
                  THEN [target |-> 0, raised |-> TRUE]
                  ELSE FindTarget(variant, titles, country, i + 1,
                          IF byName \/ (guinea /\ Includes(title.words, <<"Guinea">>))
                          THEN i ELSE target)
             ELSE FindTarget(variant, titles, country, i + 1,
                     IF title.has /\ (Includes(title.words, country)
                                       \/ (guinea /\ Includes(title.words, <<"Guinea">>)))
                     THEN i ELSE target)

\* initGlobeInteraction on a page with these markers
GlobeSetup(variant, titles) ==
    /\ ~globePage.set
    /\ globePage' = [set |-> TRUE, variant |-> variant, titles |-> titles]
    /\ lastOp' = [name |-> "globeSetup", arg |-> 0]
    /\ UNCHANGED <<physVars, appVars, partVars, viewVars, revealVars, statVars, canvasVars, formVars, setupVars, fsVars, faqVars, eventVars, loopVars, dragVars, videoVars, menuVars, activeMarkers>>

\* the click listener of an .info-box: every marker is deactivated, the
\* target is looked for and, if one is found, activated
InfoBoxClick(text) ==
    LET country == CountryName(text)
        r == FindTarget(globePage.variant, globePage.titles, country, 1, 0)
    IN  /\ globePage.set
        /\ activeMarkers' = IF r.raised \/ r.target = 0 THEN {} ELSE {r.target}
        /\ lastOp' = [name |-> "infoBoxClick", arg |-> 0, country |-> country, raised |-> r.raised]
        /\ UNCHANGED <<physVars, appVars, partVars, viewVars, revealVars, statVars, canvasVars, formVars, setupVars, fsVars, faqVars, eventVars, loopVars, dragVars, videoVars, menuVars, globePage>>

\* ------------------------------------------------------- specifications

\* Scene.setupLights: the main scene's three lights
SceneLights ==
    <<[kind |-> "light", id |-> 1], [kind |-> "light", id |-> 2], [kind |-> "light", id |-> 3]>>

Init ==
    /\ gravity = InitialGravity
    /\ objects = <<>>
    /\ ticks = 0
    /\ frameCalls = <<>>
    /\ systems = <<>>
    /\ mainScene = SceneLights \o <<[kind |-> "ground", id |-> 1]>>
    /\ trails = 0
    /\ age = <<>>
    /\ viewerScene = ViewerLights
    /\ meshes = <<>>
    /\ currentMesh = 0
    /\ isDragging = FALSE
    /\ tweens = <<>>
    /\ viewerLog = <<>>
    /\ scrollY = 0
    /\ scrolls = 0
    /\ sectionClass = [e \in Sections |-> {"section", "section-reveal"}]
    /\ counterTween = [c \in Counters |-> [progress |-> 0, dir |-> "paused"]]
    /\ counterText = [c \in Counters |-> [n |-> 0, plus |-> FALSE]]
    /\ enterCalls = [e \in Sections \cup Counters |-> 0]
    /\ starts = [e \in Sections \cup Counters |-> 0]
    /\ postTween = [c \in Counters |-> [progress |-> 0, dir |-> "unregistered"]]
    /\ postStarts = [c \in Counters |-> 0]
    /\ tweenFrom = [c \in Counters |-> [a |-> -1, b |-> -1]]
    /\ mainScrollY = 0
    /\ mainScrolls = 0
    /\ statTween = [c \in StatNumbers |-> [progress |-> 0, dir |-> "paused"]]
    /\ statText = [c \in StatNumbers |-> [n |-> 0, plus |-> FALSE]]
    /\ observed = ObservedCounters
    /\ ioTween = [c \in ObservedCounters |-> [progress |-> 0, dir |-> "none"]]
    /\ ioText = [c \in ObservedCounters |-> 0]
    /\ ioStarts = [c \in ObservedCounters |-> 0]
    /\ stages = <<>>
    /\ canvasProgress = 0
    /\ now = 0
    /\ fields = "empty"
    /\ btnDisabled = FALSE
    /\ btnLabel = "Send Message"
    /\ subs = <<>>
    /\ timers = {}
    /\ escaped = FALSE
    /\ page = {}
    /\ webgl = TRUE
    /\ appStatus = "none"
    /\ installed = {}
    /\ polling = FALSE
    /\ frameLoop = FALSE
    /\ loadingScreen = "absent"
    /\ fsNow = 0
    /\ reveal = [t \in RevealTargets \cup FailsafeTargets |->
          IF t \in RevealTargets THEN "hidden" ELSE "visible"]
    /\ fired = {}
    /\ killed = {}
    /\ fsTimers = {"cardSet", "failsafe"}
    /\ faqActive = [pg \in FaqPages |-> [i \in FaqItems |-> FALSE]]
    /\ faqMaxHeight = [pg \in FaqPages |-> [i \in FaqItems |-> "null"]]
    /\ navScrolled = FALSE
    /\ scrolledTo = "none"
    /\ animatePending = 0
    /\ retryPending = 0
    /\ gsapCalls = 0
    /\ frames = 0
    /\ previousMousePosition = [x |-> 0, y |-> 0]
    /\ lastMove = [seen |-> FALSE, x |-> 0, y |-> 0]
    /\ viewerSteps = 0
    /\ videoVariant = "none"
    /\ videoNow = 0
    /\ videoLoader = ""
    /\ videoTimer = FALSE
    /\ videoMetadata = FALSE
    /\ videoTriggers = 0
    /\ videoDuration = 0
    /\ videoCurrentTime = 0
    /\ menuPage = [set |-> FALSE, variant |-> "main", hamburger |-> FALSE, overlay |-> FALSE, links |-> 0]
    /\ menuActive = FALSE
    /\ hamburgerToggle = FALSE
    /\ menuClicks = 0
    /\ globePage = [set |-> FALSE, variant |-> "main", titles |-> <<>>]
    /\ activeMarkers = {}
    /\ lastOp = [name |-> "init", arg |-> 0]

NextPhysics ==
    \/ \E s \in Spawns : AddObject(s[1], s[2])
    \/ Update
    \/ \E g \in GravityValues : SetGravity(g)
    \/ Animate

SpecPhysics == Init /\ [][NextPhysics]_vars

NextParticles ==
    \/ \E p \in TrailPositions, seed \in Seeds : CreateTrail(p, seed)
    \/ ParticlesUpdate

SpecParticles == Init /\ [][NextParticles]_vars

NextViewer ==
    \/ \E k \in Keys : SetProduct(k)
    \/ TweensComplete
    \/ MouseDown
    \/ MouseUp

SpecViewer == Init /\ [][NextViewer]_vars

NextDrag ==
    \/ \E k \in Keys : SetProduct(k)
    \/ MouseDown
    \/ MouseUp
    \/ \E ox \in Offsets, oy \in Offsets : MouseMove(ox, oy)
    \/ ViewerRender

SpecDrag == Init /\ [][NextDrag]_vars

NextVideo ==
    \/ \E variant \in VideoVariants : InitVideoScroll(variant)
    \/ \E d \in Durations : LoadedMetadata(d)
    \/ FallbackTimer
    \/ VideoTick
    \/ \E progress \in Progresses : VideoUpdate(progress)

SpecVideo == Init /\ [][NextVideo]_vars

NextMenu ==
    \/ \E variant \in {"main", "readme"}, hamburger \in BOOLEAN, overlay \in BOOLEAN, links \in LinkCounts :
          MenuSetup(variant, hamburger, overlay, links)
    \/ HamburgerClick
    \/ \E k \in 1..MaxLinks : MobileLinkClick(k)

SpecMenu == Init /\ [][NextMenu]_vars

NextGlobe ==
    \/ \E variant \in {"main", "readme"}, n \in 1..MaxMarkers :
          \E titles \in [1..n -> Titles] : GlobeSetup(variant, titles)
    \/ \E text \in BoxTexts : InfoBoxClick(text)

SpecGlobe == Init /\ [][NextGlobe]_vars

NextReveal ==
    \/ \E y \in ScrollStops : ScrollTo(y)
    \/ StartPostLoadingAnimations
    \/ TweenTick

SpecReveal == Init /\ [][NextReveal]_vars

NextCounters ==
    \/ \E y \in ScrollStops : MainScrollTo(y)
    \/ MainTweenTick

SpecCounters == Init /\ [][NextCounters]_vars

NextCanvas ==
    \/ InitCanvasAnimation
    \/ \E i \in 1..StageCount : ImgError(i)
    \/ \E o \in CanvasOffsets : CanvasUpdate(o)

SpecCanvas == Init /\ [][NextCanvas]_vars

NextForm ==
    \/ FillFields
    \/ Submit
    \/ \E i \in 1..MaxSubmits, o \in Outcomes : Respond(i, o)
    \/ \E i \in 1..MaxSubmits : Revert(i)
    \/ FormTick

SpecForm == Init /\ [][NextForm]_vars

NextSetup ==
    \/ \E els \in SUBSET Elements, gl \in BOOLEAN : DOMContentLoaded(els, gl)
    \/ LoadingScreenTimer
    \/ \E renderThrows \in BOOLEAN, setupThrows \in BOOLEAN : AnimationFrame(renderThrows, setupThrows)
    \/ InsertHeroTitle

SpecSetup == Init /\ [][NextSetup]_vars

NextFailsafe ==
    \/ \E t \in RevealTargets : RevealEnter(t)
    \/ \E t \in RevealTargets : RevealLeaveBack(t)
    \/ ContactCardSet
    \/ FailsafeFire
    \/ FsTick

SpecFailsafe == Init /\ [][NextFailsafe]_vars

NextFaq == \E pg \in FaqPages, i \in FaqItems : FaqClick(pg, i)

SpecFaq == Init /\ [][NextFaq]_vars

\* a click on item i of the main.js page: with the answers there the handler
\* of FaqClick; without them the loop removes 'active' from the first item and
\* raises at its missing answer
MainFaqClick(i) ==
    /\ "faqClick" \in installed
    /\ IF "faq-answer" \in page
       THEN FaqClick("main", i)
       ELSE /\ faqActive' = [faqActive EXCEPT !["main"][1] = FALSE]
            /\ lastOp' = [name |-> "faqClick", arg |-> <<"main", i>>, raised |-> TRUE]
            /\ UNCHANGED <<physVars, appVars, partVars, viewVars, revealVars, statVars,
                           canvasVars, formVars, setupVars, fsVars, eventVars, faqMaxHeight, loopVars, dragVars, videoVars, menuVars, globeVars>>

NextEvents ==
    \/ \E els \in SUBSET LookedUp, gl \in BOOLEAN : DOMContentLoaded(Elements \cup els, gl)
    \/ \E y \in ScrollOffsets : NavbarScroll(y)
    \/ MainCtaClick
    \/ \E v \in CardVariants, k \in Keys : ProductCardClick(v, k)
    \/ \E i \in FaqItems : MainFaqClick(i)

SpecEvents == Init /\ [][NextEvents]_vars

\* ================================================================ claims

\* C1: Physics.update(): for every registered body, after one update() its
\* oldPos equals its pos from before the call, and its new pos equals
\* pos_before + (pos_before - oldPos_before) * damping, the y component
\* additionally changed by -(gravity * dt * dt * 100); x and z get no gravity term.
C1_VerletStep ==
    [][lastOp'.name = "update" =>
        /\ Len(objects') = Len(objects)
        /\ \A i \in 1..Len(objects) :
            /\ objects'[i].oldPos = objects[i].pos
            /\ objects'[i].pos.x
                 = objects[i].pos.x + MulDamping(objects[i].pos.x - objects[i].oldPos.x)
            /\ objects'[i].pos.y
                 = objects[i].pos.y + MulDamping(objects[i].pos.y - objects[i].oldPos.y)
                   - gravity * Dt * Dt
            /\ objects'[i].pos.z
                 = objects[i].pos.z + MulDamping(objects[i].pos.z - objects[i].oldPos.z)]_vars

\* a second update() has advanced a body that moves along x, y and z under gravity
C1_Witness ==
    /\ lastOp.name = "update"
    /\ ticks = 2
    /\ gravity # 0
    /\ \E i \in 1..Len(objects) :
        /\ objects[i].pos.x # objects[i].oldPos.x
        /\ objects[i].pos.y # objects[i].oldPos.y

\* C2: setGravity(g) changes no body's pos or oldPos by itself, and on the next
\* update() every registered body receives the same gravity term computed from
\* g: two bodies with equal pos and oldPos before the tick have equal pos after it.
C2_SharedGravity ==
    [][/\ lastOp'.name = "setGravity" =>
            /\ objects' = objects
            /\ gravity' = lastOp'.arg
       /\ lastOp'.name = "update" =>
            \A i, j \in 1..Len(objects) :
                /\ objects'[i].pos.y - objects[i].pos.y
                     - MulDamping(objects[i].pos.y - objects[i].oldPos.y)
                     = -(gravity * Dt * Dt)
                /\ (objects[i].pos = objects[j].pos /\ objects[i].oldPos = objects[j].oldPos)
                     => objects'[i].pos = objects'[j].pos]_vars

\* setGravity has replaced the initial gravity and an update() then advanced two
\* bodies that were equal before it
C2_Witness ==
    /\ lastOp.name = "update"
    /\ gravity # InitialGravity
    /\ Len(objects) = 2
    /\ objects[1].pos = objects[2].pos
    /\ objects[1].oldPos = objects[2].oldPos
    /\ objects[1].pos # objects[1].oldPos

\* C3: a body whose pos.y is driven past the bound (y > 100 or y < -50) is
\* removed from the active body list by the end of the frame in which the bound
\* was crossed: when a frame of App.animate has ended, no listed body is out of bounds.
C3_RemovedWithinFrame ==
    lastOp.name = "animate" => \A i \in 1..Len(objects) : ~OutOfBounds(objects[i])

\* C4: in every frame of App.animate the physics integrator advances exactly
\* once, then the particle pool advances exactly once, then the scene is rendered.
C4_FrameOrder ==
    lastOp.name = "animate" =>
        SelectSeq(frameCalls, LAMBDA c : c \in {"physics.update", "particles.update", "scene.render"})
            = <<"physics.update", "particles.update", "scene.render">>

\* C5: a system created by createTrail is removed from the systems list and its
\* points object from the scene once N update() calls with N * 0.02 >= 1 have
\* advanced it, and in no earlier update: it is listed iff N * 2 < 100.
C5_RemovedAtFiftiethUpdate ==
    \A id \in 1..trails :
        /\ id \in SystemIds <=> age[id] * 2 < 100
        /\ id \in ScenePoints <=> id \in SystemIds

\* a system has been advanced 50 times and is gone from the list and the scene,
\* while a younger one is still listed
C5_Witness ==
    \E id \in 1..trails :
        /\ age[id] = 50
        /\ id \notin SystemIds
        /\ id \notin ScenePoints
        /\ SystemIds # {}

\* C6: for every particle system the opacity after each update() is strictly
\* lower than the opacity before that update, starting from the opacity it is
\* created with.
C6_OpacityStrictlyDecreasing ==
    [][lastOp'.name = "particles.update" =>
        \A i \in 1..Len(systems), j \in 1..Len(systems') :
            systems[i].points.id = systems'[j].points.id
                => DLess(systems'[j].points.opacity, systems[i].points.opacity)]_vars

\* C7: after any sequence of setProduct calls the viewer scene contains exactly
\* one product mesh, it is the mesh created by the last call with a known key
\* and equals currentMesh, and no mesh from an earlier call remains in the scene.
C7_ExactlyOneMesh ==
    /\ currentMesh = 0 => SceneMeshes = <<>> /\ meshes = <<>>
    /\ currentMesh # 0 => SceneMeshes = <<MeshChild(currentMesh)>> /\ currentMesh = Len(meshes)
    /\ (lastOp.name = "setProduct" /\ lastOp.arg \in ProductKeys)
         => meshes[currentMesh].type = lastOp.arg

\* setProduct('cashew') then setProduct('sesame') have run
C7_Witness ==
    /\ lastOp = [name |-> "setProduct", arg |-> "sesame"]
    /\ Len(meshes) = 2
    /\ meshes[1].type = "cashew"
    /\ meshes[2].type = "sesame"
    /\ SceneMeshes = <<MeshChild(2)>>

\* C8: after setProduct(k) with k outside {sesame, cashew, cocoa}, currentMesh is
\* the same mesh as before the call, it is still present in the viewer scene
\* exactly once, and no other product mesh is present.
C8_UnknownKeyKeepsMesh ==
    [][(lastOp'.name = "setProduct" /\ lastOp'.arg \notin ProductKeys) =>
        /\ currentMesh' = currentMesh
        /\ Len(meshes') = Len(meshes)
        /\ SceneMeshes' = SceneMeshes
        /\ currentMesh # 0 =>
             Cardinality({i \in 1..Len(viewerScene') : viewerScene'[i] = MeshChild(currentMesh)}) = 1]_vars

\* setProduct with an unknown key has run while a mesh was displayed
C8_Witness ==
    /\ lastOp = [name |-> "setProduct", arg |-> "unknown-key"]
    /\ currentMesh # 0
    /\ SceneMeshes = <<MeshChild(currentMesh)>>

\* C9: setProduct with an unknown key is a no-op: during the call no mesh is
\* removed from the viewer scene, none is inserted, and no grow-from-zero
\* entrance transition is started.
C9_UnknownKeyNoOp ==
    (lastOp.name = "setProduct" /\ lastOp.arg \notin ProductKeys) => viewerLog = <<>>

\* C10: a one-shot, non-repeatable reveal binding (the per-section 'active'
\* class reveal, the counter tween with toggleActions 'play none none none')
\* fires at most once per element for any scroll sequence that crosses its
\* entrance threshold forwards and backwards any number of times: its reveal
\* begins at most once, and once revealed the element never returns to its
\* hidden state (the class stays, the count-up never runs back).
C10_OneShotReveal ==
    [][/\ \A e \in Sections \cup Counters : starts'[e] <= 1
       /\ \A e \in Sections : "active" \in sectionClass[e] => "active" \in sectionClass'[e]
       /\ \A c \in Counters : counterTween'[c].progress >= counterTween[c].progress]_vars

\* a section and a counter were revealed, their thresholds crossed forwards twice
C10_Witness ==
    /\ \E e \in Sections : enterCalls[e] >= 2 /\ starts[e] = 1 /\ "active" \in sectionClass[e]
    /\ \E c \in Counters :
        /\ enterCalls[c] >= 2
        /\ starts[c] = 1
        /\ counterTween[c].progress = TweenSteps
        /\ counterText[c] = [n |-> DataTarget[c], plus |-> TRUE]

\* C11: for every counter element the displayed integer never decreases over
\* the page lifetime, for any scroll sequence, including scrolling back above
\* the element's trigger threshold after the count-up started: it starts at 0
\* and, once the count-up has begun, heads for exactly data-target.
C11_CounterMonotone ==
    [][/\ \A c \in StatNumbers : statText'[c].n >= statText[c].n
       /\ \A c \in ObservedCounters : ioText'[c] >= ioText[c]]_vars

\* C12: for every counter element the count-up animation is started at most
\* once: after the first sufficient-visibility event the element is no longer
\* observed, a second visibility event starts no new animation, and no second
\* count-up binding is registered on the same element.
C12_CountUpStartedOnce ==
    /\ \A c \in ObservedCounters : ioStarts[c] <= 1 /\ (ioStarts[c] = 1 => c \notin observed)
    /\ \A c \in Counters :
          /\ starts[c] + postStarts[c] <= 1
          /\ ~Registered(postTween[c])

\* the 0-based indices of the stage elements shown with opacity 1
ShownStages(st) == {i - 1 : i \in {k \in 1..Len(st) : st[k].opacity = 1}}

\* C13: in the pinned image sequence, after every progress update with
\* progress p in [0,1] exactly one stage element has opacity 1 and all others
\* opacity 0, the one shown is stage min(floor(p * stageCount), stageCount - 1),
\* and the index shown never decreases while progress grows and never grows
\* while progress decreases (so along 0 -> 0.5 -> 1 -> 0.5 it is
\* non-decreasing then non-increasing).
C13_StageIndex ==
    [][stages' # <<>> =>
        /\ \A i \in 1..Len(stages') : stages'[i].opacity \in {0, 1}
        /\ \E j \in 0..(StageCount - 1) :
              /\ ShownStages(stages') = {j}
              /\ j * CanvasEnd <= canvasProgress' * StageCount
              /\ \/ canvasProgress' * StageCount < (j + 1) * CanvasEnd
                 \/ j = StageCount - 1
              /\ \A k \in ShownStages(stages) :
                    /\ canvasProgress' >= canvasProgress => j >= k
                    /\ canvasProgress' <= canvasProgress => j <= k]_vars

\* progress came back from 1 to 0.5: the third stage is shown again
C13_Witness ==
    /\ lastOp.name = "canvasUpdate"
    /\ lastOp.from = CanvasEnd
    /\ canvasProgress * 2 = CanvasEnd
    /\ ShownStages(stages) = {2}
    /\ stages[3].scale = 10 /\ stages[4].scale = 11

\* submission i ended and its revert timer has not fired yet
Reverting(i) == \E t \in timers : t.id = i

\* submission i overlaps no other one: every other submission was over, its
\* revert timer fired, before submission i began
Alone(i) ==
    \A j \in 1..Len(subs) : j # i =>
        /\ subs[j].status # "inflight"
        /\ ~Reverting(j)
        /\ subs[j].endedAt + RevertDelay < subs[i].startedAt

\* C14: when a contact-form submission ends in a network failure (fetch
\* rejects), no exception escapes the submit handler; from the failure until
\* the revert the control stays disabled and the label shows the error text
\* (for a submission that overlaps no other one); and the revert happens exactly
\* RevertDelay (3000 ms) after the failure, leaving the control enabled and
\* the label 'Send Message'.
C14_NetworkFailureReverts ==
    /\ ~escaped
    /\ \A i \in 1..Len(subs) : subs[i].status = "rejected" =>
          /\ (Reverting(i) /\ Alone(i)) => (btnDisabled /\ btnLabel = "Error. Try Again.")
          /\ Reverting(i) => now <= subs[i].endedAt + RevertDelay
          /\ ~Reverting(i) => now >= subs[i].endedAt + RevertDelay
          /\ lastOp = [name |-> "revert", arg |-> i] =>
                /\ now = subs[i].endedAt + RevertDelay
                /\ ~btnDisabled
                /\ btnLabel = "Send Message"

\* a second submission, begun after the first one was reverted, failed with a
\* network error and was reverted 3000 ms later
C14_Witness ==
    /\ lastOp = [name |-> "revert", arg |-> 2]
    /\ Alone(2)
    /\ subs[lastOp.arg].status = "rejected"
    /\ now = subs[lastOp.arg].endedAt + RevertDelay
    /\ ~btnDisabled /\ btnLabel = "Send Message"

\* C15: whenever the contact submission ends in failure, by a non-ok response
\* or by a network error, an error message is shown on the submit control
\* until the revert; and the form fields are cleared only on success.
C15_FailureShowsError ==
    \A i \in 1..Len(subs) :
        /\ (subs[i].status \in {"notok", "rejected"} /\ Reverting(i) /\ Alone(i))
              => btnLabel = "Error. Try Again."
        /\ (lastOp.name = "respond" /\ lastOp.arg = i /\ lastOp.cleared) => subs[i].status = "ok"

\* C16: in every reachable state in which a contact-form request is in flight
\* the submit control is disabled, for every interleaving of submit events,
\* endpoint responses and revert timers.
C16_DisabledWhileInFlight ==
    (\E i \in 1..Len(subs) : subs[i].status = "inflight") => btnDisabled

\* C17: if the 3D background fails to initialize because no graphics context
\* is available, the failure is caught and page setup continues: the
\* interaction handlers, the FAQ accordion and the scroll bindings of the
\* elements present are installed and the frame loop starts.
C17_BackgroundFailureTolerated ==
    (appStatus # "none" /\ ~webgl) =>
        /\ appStatus = "running"
        /\ SetupInteractions(page) \cup SetupFAQ(page) \cup SetupScrollEffects(page) \subseteq installed
        /\ frameLoop

\* C18: for every subset of the page's elements being absent at setup time
\* (with a graphics context available), setup completes without raising, no
\* binding whose element is absent is installed, and every binding whose
\* elements are present is installed.
C18_MissingElementsSkipped ==
    (appStatus # "none" /\ webgl) =>
        /\ appStatus = "running"
        /\ installed = Present(Bindings, page)

\* C19: if no scroll-driven trigger ever fires, then once the fail-safe delay
\* (5 s after setup) and the fail-safe's own transition have passed, every
\* element that a one-shot reveal binding initially hides (steps, counters,
\* product cards, info boxes, info items, milestones, section headers, contact
\* form card) is in its final visible state.
C19_FailsafeRevealsAll ==
    (fired = {} /\ fsNow >= FailsafeDelay + FailsafeDuration) =>
        \A t \in RevealTargets \cup FailsafeTargets : reveal[t] = "visible"

\* the items of page pg that have the class 'active'
ActiveItems(active, pg) == {i \in FaqItems : active[pg][i]}

\* C20: FAQ accordion: after any sequence of clicks at most one item has the
\* class 'active'; a click on an inactive item makes exactly that item active
\* and deactivates all others; a click on the active item leaves no item
\* active; and an item's answer has a max-height set iff the item is active.
C20_FaqAccordion ==
    [][\A pg \in FaqPages :
        /\ Cardinality(ActiveItems(faqActive', pg)) <= 1
        /\ \A i \in FaqItems : faqMaxHeight'[pg][i] # "null" <=> faqActive'[pg][i]
        /\ \A i \in FaqItems : lastOp' = [name |-> "faqClick", arg |-> <<pg, i>>] =>
              /\ ~faqActive[pg][i] => ActiveItems(faqActive', pg) = {i}
              /\ faqActive[pg][i] => ActiveItems(faqActive', pg) = {}]_vars

\* after a click on the README page one item is open on each page, the one of
\* the main.js page with an answer of height 0
C20_Witness ==
    /\ lastOp = [name |-> "faqClick", arg |-> <<"readme", 3>>]
    /\ ActiveItems(faqActive, "readme") = {3}
    /\ ActiveItems(faqActive, "main") = {2}
    /\ faqMaxHeight["main"][2] = "0px"
    /\ faqMaxHeight["readme"][3] = "25px"

\* C21: for every click on a product card with data-product = k,
\* ProductViewer.setProduct(k) is invoked on a live viewer and the click
\* handler completes without raising.
C21_CardClickSwapsModel ==
    lastOp.name = "productCardClick" => (lastOp.invoked /\ ~lastOp.raised)

\* C22: no event handler installed by the orchestrator is fatal: for every
\* scroll or click event and every subset of looked-up elements being absent
\* at event time, the handler finishes without raising.
C22_NoHandlerRaises == ~Raised

\* C23: after init exactly one animation-frame callback of App.animate is
\* pending at every moment, never zero and never more than one, so exactly one
\* tick runs per frame, even after a frame in which a render call throws.
C23_OneAnimatePending == appStatus = "running" => animatePending = 1

\* frames have run, the last one with a render call that threw
C23_Witness ==
    /\ frames >= 2
    /\ lastOp.name = "animationFrame"
    /\ lastOp.renderThrew
    /\ animatePending = 1

\* C26: setupGSAPAnimations is invoked at most once and only when #hero-title
\* exists; while #hero-title is absent exactly one retry is pending per frame;
\* once #hero-title exists and the gate has seen it no retry is pending any
\* more, whether setup succeeded or its exception was caught.
C26_ReadinessGate ==
    [][/\ gsapCalls' <= 1
       /\ gsapCalls' > gsapCalls => "hero-title" \in page'
       /\ appStatus' = "running" => retryPending' = (IF gsapCalls' = 0 THEN 1 ELSE 0)
       /\ (appStatus' = "running" /\ "hero-title" \notin page') => retryPending' = 1
       /\ (lastOp'.name = "animationFrame" /\ "hero-title" \in page') => retryPending' = 0]_vars

\* #hero-title came late: the gate polled, then ran setup, whose exception was
\* caught, and the polling ended
C26_Witness ==
    /\ lastOp.name = "animationFrame"
    /\ lastOp.setupThrew
    /\ frames >= 2
    /\ gsapCalls = 1
    /\ retryPending = 0

\* the scroll-bound reveal bindings on .contact-form-card
ContactCardBindings == {"contactFormAnim", "contactFormReveal"}

\* C27: after setup (setupSiteAnimations followed by setupGSAPAnimations)
\* exactly one scroll-bound reveal binding drives the .contact-form-card.
C27_ContactCardBoundOnce ==
    (gsapCalls = 1 /\ "contact-form-card" \in page /\ ~(lastOp.name = "animationFrame" /\ lastOp.setupThrew))
        => Cardinality(installed \cap ContactCardBindings) = 1

\* the rotation of every mesh but the displayed one is unchanged, and the
\* displayed one's rotation moves by (dx, dy)
RotationMoves(dx, dy) ==
    /\ Len(meshes') = Len(meshes)
    /\ \A i \in 1..Len(meshes) :
          meshes'[i].rotation =
              IF i = currentMesh
              THEN [x |-> meshes[i].rotation.x + dx, y |-> meshes[i].rotation.y + dy]
              ELSE meshes[i].rotation

\* C24: the pressed flag is true exactly from a mousedown in the container
\* until the next mouseup; a mousemove changes the displayed mesh's rotation
\* only while the flag is true, by 0.01 x the pointer delta since the previous
\* mousemove; render() adds 0.005 to rotation.y only while the flag is false;
\* with no mesh displayed neither changes any rotation.
C24_ViewerDrag ==
    [][/\ lastOp'.name = "mousedown" => isDragging'
       /\ lastOp'.name = "mouseup" => ~isDragging'
       /\ lastOp'.name \notin {"mousedown", "mouseup"} => isDragging' = isDragging
       /\ (lastOp'.name = "mousemove" /\ lastMove.seen) =>
              IF isDragging /\ currentMesh # 0
              THEN RotationMoves(DragFactor * (lastMove'.y - lastMove.y),
                                 DragFactor * (lastMove'.x - lastMove.x))
              ELSE RotationMoves(0, 0)
       /\ lastOp'.name = "render" =>
              IF ~isDragging /\ currentMesh # 0
              THEN RotationMoves(0, AutoRotation)
              ELSE RotationMoves(0, 0)]_vars

\* a drag has turned the displayed mesh about both axes after an undragged
\* render auto-rotated it
C24_Witness ==
    /\ lastOp.name = "mousemove"
    /\ isDragging
    /\ currentMesh # 0
    /\ meshes[currentMesh].rotation = [x |-> 4 * DragFactor, y |-> AutoRotation - 4 * DragFactor]

\* the systems of a list, as a set
Listed(sys) == {sys[i] : i \in 1..Len(sys)}

\* C25: after every createTrail and every update() a points object is in the
\* scene iff its system is listed, every listed system has 0 < life <= 1 and
\* its 20 points, and an update() advances every system listed at its start
\* exactly once, also when other systems are removed in the same pass.
C25_PoolConsistent ==
    [][lastOp'.name \in {"createTrail", "particles.update"} =>
        /\ ScenePoints' = SystemIds'
        /\ Cardinality(SystemIds') = Len(systems')
        /\ \A s \in Listed(systems') :
              /\ ~DLeqZero(s.life)
              /\ ~DLess(DOne, s.life)
              /\ Len(s.points.positions) = 3 * 20
              /\ Len(s.velocities) = 20
        /\ lastOp'.name = "particles.update" =>
              /\ \A s \in Listed(systems) :
                    IF DLeqZero(LifeStep(s.life))
                    THEN s.points.id \notin SystemIds'
                    ELSE \E t \in Listed(systems') :
                            /\ t.points.id = s.points.id
                            /\ t.life = LifeStep(s.life)
                            /\ t.points.opacity = t.life
              /\ SystemIds' \subseteq SystemIds]_vars

\* an update() has removed one system and advanced another, younger one
C25_Witness ==
    /\ lastOp.name = "particles.update"
    /\ lastOp.arg = 1
    /\ Len(systems) = 1
    /\ age[systems[1].points.id] \in 1..49

\* C28: the pinned video scroll binding is created at most once per page,
\* whether 'loadedmetadata' comes before the 2000 ms fallback timer, after it
\* or never; a progress update sets currentTime = duration * progress only
\* when the duration is known and otherwise leaves it unchanged.
C28_VideoBindingOnce ==
    /\ videoTriggers <= 1
    /\ lastOp.name = "videoUpdate" =>
          videoCurrentTime = IF videoDuration # 0 THEN (videoDuration * lastOp.arg) \div 100
                             ELSE lastOp.from

\* C29: after any sequence of hamburger clicks and mobile-menu link clicks the
\* overlay's 'active' class and the hamburger's 'toggle' class are both
\* present or both absent; a hamburger click flips both, a link click clears
\* both.
C29_MenuInSync ==
    [][/\ menuActive' = hamburgerToggle'
       /\ (lastOp'.name = "hamburgerClick" /\ MenuListening) =>
              (menuActive' = ~menuActive /\ hamburgerToggle' = ~hamburgerToggle)
       /\ lastOp'.name = "mobileLinkClick" => (~menuActive' /\ ~hamburgerToggle')]_vars

\* the menu was opened and closed by the hamburger, and opened again
C29_Witness ==
    /\ lastOp.name = "hamburgerClick"
    /\ menuClicks = 3
    /\ menuActive
    /\ hamburgerToggle

\* the markers whose title contains the country name
NameMatches(country) ==
    {i \in 1..Len(globePage.titles) :
        globePage.titles[i].has /\ Includes(globePage.titles[i].words, country)}

\* the greatest element of a non-empty set of marker indices
Last(S) == CHOOSE i \in S : \A j \in S : j <= i

\* C30: after any sequence of info-box clicks at most one marker is active;
\* each click deactivates every marker and then activates only the last marker
\* whose title contains the clicked box's country name, none when no marker
\* matches.
C30_GlobeMarkers ==
    /\ Cardinality(activeMarkers) <= 1
    /\ lastOp.name = "infoBoxClick" =>
          activeMarkers = IF NameMatches(lastOp.country) = {} THEN {}
                          ELSE {Last(NameMatches(lastOp.country))}

====
